---- MODULE Spec2Model ----
(***************************************************************************)
(* A model of the reasoning layer of cdl2025: the conversational agent     *)
(* graph (src/llm/agent.py), the text-to-query pipeline                    *)
(* (src/llm/pipeline.py) and the deterministic ICD -> HPO coverage         *)
(* functions (src/llm/query_factory.py), followed by the patient views     *)
(* (src/llm/pipeline_patient.py), the ICD group range expansion            *)
(* (src/factory/icd10_group.py), the UMLS cross-mapping importer           *)
(* (src/factory/umls_map.py), the embedding client (src/llm/utils.py),     *)
(* the ontology mapper (src/factory/ontology_map.py), _run_query, the       *)
(* configuration loader (src/util/config_loader.py), the ICD group         *)
(* importer, the embedding importers (src/factory/hpo_embedding.py,        *)
(* src/factory/icd10_embedding.py) and the batched calls of the mapper.    *)
(*                                                                         *)
(* Python strings are sequences of one-character strings; Python's None    *)
(* where a string is expected is the sequence None, which no string of     *)
(* characters equals.  A dict key that is not set is a key outside the     *)
(* DOMAIN of the record.                                                   *)
(***************************************************************************)
EXTENDS Integers, Sequences, FiniteSets, TLC

VARIABLES
    state,      \* agent: the AgentState dict threaded through the graph
    pc,         \* agent: the graph node to run next, "END", "RAISED" or "idle"
    trace,      \* agent: the graph nodes entered so far, in order (history)
    ppc,        \* pipeline: position in text2cypher_pipeline
    pl,         \* pipeline: its locals (generated, corrected, errors, ...)
    plog,       \* pipeline: history of chain calls, probes and executions
    db,         \* query functions: the graph database content
    call,       \* query functions: the call being made (function and arguments)
    ret         \* query functions: the value returned

agentVars == <<state, pc, trace>>
pipeVars  == <<ppc, pl, plog>>
queryVars == <<db, call, ret>>
vars      == <<state, pc, trace, ppc, pl, plog, db, call, ret>>

----------------------------------------------------------------------------
(* Characters and strings                                                  *)

None == <<"None">>

LowerLetters == <<"a","b","c","d","e","f","g","h","i","j","k","l","m","n","o","p","q","r","s","t","u","v","w","x","y","z">>
UpperLetters == <<"A","B","C","D","E","F","G","H","I","J","K","L","M","N","O","P","Q","R","S","T","U","V","W","X","Y","Z">>
DigitChars   == <<"0","1","2","3","4","5","6","7","8","9">>
\* the characters used, in code-point order
Ascii == <<" ","\"","'","-",".","0","1","2","3","4","5","6","7","8","9",":","=","A","B","C","D","E","F","G","H","I","J","K","L","M","N","O","P","Q","R","S","T","U","V","W","X","Y","Z","_","a","b","c","d","e","f","g","h","i","j","k","l","m","n","o","p","q","r","s","t","u","v","w","x","y","z">>

Range(s) == {s[i] : i \in DOMAIN s}
IndexIn(s, c) == CHOOSE i \in DOMAIN s : s[i] = c
Ord(c) == IndexIn(Ascii, c)

LowerChar(c) == IF c \in Range(UpperLetters) THEN LowerLetters[IndexIn(UpperLetters, c)] ELSE c
UpperChar(c) == IF c \in Range(LowerLetters) THEN UpperLetters[IndexIn(LowerLetters, c)] ELSE c
Lower(s) == [i \in DOMAIN s |-> LowerChar(s[i])]
Upper(s) == [i \in DOMAIN s |-> UpperChar(s[i])]

IsSpace(c) == c = " "
IsWord(c)  == c \in Range(LowerLetters) \cup Range(UpperLetters) \cup Range(DigitChars) \cup {"_"}
IsQuote(c) == c \in {"'", "\""}

\* Python's `kw in q`
Contains(q, kw) ==
    \E i \in 1..(Len(q) - Len(kw) + 1) : SubSeq(q, i, i + Len(kw) - 1) = kw

\* a literal of the pattern matches q at i, ignoring case
MatchLit(q, i, lit) ==
    /\ i + Len(lit) - 1 <= Len(q)
    /\ Lower(SubSeq(q, i, i + Len(lit) - 1)) = lit

\* \s* from i: the first index >= i that is not white space (Len(q)+1 at the end)
RECURSIVE SkipSpace(_, _)
SkipSpace(q, i) == IF i <= Len(q) /\ IsSpace(q[i]) THEN SkipSpace(q, i + 1) ELSE i

\* [\w-]* from i: the last index of the maximal run (i-1 when it is empty)
RECURSIVE RunEnd(_, _)
RunEnd(q, i) ==
    IF i <= Len(q) /\ (IsWord(q[i]) \/ q[i] = "-") THEN RunEnd(q, i + 1) ELSE i - 1

\* patientId\s*[:=]\s*['"]([\w-]+)['"] matched at i: the span of group 1, or <<>>
PatientIdPatternAt(q, i) ==
    IF ~MatchLit(q, i, <<"p","a","t","i","e","n","t","i","d">>) THEN <<>>
    ELSE LET j == SkipSpace(q, i + 9) IN
         IF ~(j <= Len(q) /\ q[j] \in {":", "="}) THEN <<>>
         ELSE LET k == SkipSpace(q, j + 1) IN
              IF ~(k <= Len(q) /\ IsQuote(q[k])) THEN <<>>
              ELSE LET e == RunEnd(q, k + 1) IN
                   IF e >= k + 1 /\ e + 1 <= Len(q) /\ IsQuote(q[e + 1])
                   THEN <<k + 1, e>> ELSE <<>>

\* \bpatient\s+([\w-]+)\b matched at i: the span of group 1, or <<>>
PatientWordPatternAt(q, i) ==
    IF ~((i = 1 \/ ~IsWord(q[i - 1])) /\ MatchLit(q, i, <<"p","a","t","i","e","n","t">>))
    THEN <<>>
    ELSE LET j == SkipSpace(q, i + 7) IN
         IF j = i + 7 THEN <<>>
         ELSE LET e    == RunEnd(q, j)
                  ends == {x \in j..e : IsWord(q[x]) /\ (x = Len(q) \/ ~IsWord(q[x + 1]))}
              IN IF ends = {} THEN <<>>
                 ELSE <<j, CHOOSE x \in ends : \A y \in ends : y <= x>>

\* re.search(...).group(1): the leftmost match's group, or None
SearchPatientIdPattern(q) ==
    LET hits == {i \in 1..Len(q) : PatientIdPatternAt(q, i) # <<>>} IN
    IF hits = {} THEN None
    ELSE LET i == CHOOSE x \in hits : \A y \in hits : x <= y
             g == PatientIdPatternAt(q, i)
         IN SubSeq(q, g[1], g[2])

SearchPatientWordPattern(q) ==
    LET hits == {i \in 1..Len(q) : PatientWordPatternAt(q, i) # <<>>} IN
    IF hits = {} THEN None
    ELSE LET i == CHOOSE x \in hits : \A y \in hits : x <= y
             g == PatientWordPatternAt(q, i)
         IN SubSeq(q, g[1], g[2])

\* Python truthiness of an Optional[str]
TruthyStr(s) == s # None /\ s # <<>>

----------------------------------------------------------------------------
(* The graph database, as far as the query functions read it               *)
(*   db.patient         patient id -> the rows apoc.dv.query yields for it *)
(*                      (one per encounter; a row whose ICD10_Codes is     *)
(*                      null has no codes field)                           *)
(*   db.icd_maps_to_hpo (IcdDisease id, HpoPhenotype id) edges             *)
(*   db.umls_to_icd     (Umls id, IcdDisease id) edges                     *)
(*   db.umls_to_hpo     (Umls id, HpoPhenotype id) edges                   *)
(*   db.hpo             the ids of the HpoPhenotype nodes                  *)
(*   db.subclassof      (HpoPhenotype id, HpoPhenotype id) edges           *)
(*   db.has_feature     HpoDisease id -> its HAS_PHENOTYPIC_FEATURE ids    *)

P001 == <<"P","0","0","1">>
P002 == <<"P","0","0","2">>
PatientIds == {P001, P002}

A1 == <<"A","1">>
B2 == <<"B","2">>
IcdIds  == {A1, B2}
UmlsIds == {"U1"}
Phenos  == {"H1", "H2", "H3"}
Diseases == {"D1", "D2", "D3"}

MaxCodes     == 2   \* raw codes in one row's ICD10_Codes list
MaxRows      == 2   \* rows (encounters) of one patient
MaxCodeArgs  == 2   \* codes passed to map_icd_to_hpo
MaxTargetLen == 2   \* ids passed to compute_coverage
MaxLimit     == 2   \* the limit passed to compute_coverage

SeqsUpTo(S, n) == UNION {[1..k -> S] : k \in 0..n}

\* all orders in which the elements of a finite set can be listed
RECURSIVE Perms(_)
Perms(S) ==
    IF S = {} THEN {<<>>}
    ELSE UNION {{<<x>> \o p : p \in Perms(S \ {x})} : x \in S}

Take(s, n) == SubSeq(s, 1, IF n < Len(s) THEN n ELSE Len(s))

\* str.strip()
RECURSIVE StripLeft(_)
StripLeft(s) == IF s # <<>> /\ IsSpace(s[1]) THEN StripLeft(Tail(s)) ELSE s
RECURSIVE StripRight(_)
StripRight(s) ==
    IF s # <<>> /\ IsSpace(s[Len(s)]) THEN StripRight(SubSeq(s, 1, Len(s) - 1)) ELSE s
Strip(s) == StripRight(StripLeft(s))

\* Python's order on strings: by code point, a proper prefix first
RECURSIVE StrLess(_, _)
StrLess(a, b) ==
    IF a = <<>> THEN b # <<>>
    ELSE IF b = <<>> THEN FALSE
    ELSE IF a[1] # b[1] THEN Ord(a[1]) < Ord(b[1])
    ELSE StrLess(Tail(a), Tail(b))

\* sorted(S) of a set of strings
RECURSIVE Sorted(_)
Sorted(S) ==
    IF S = {} THEN <<>>
    ELSE LET m == CHOOSE x \in S : \A y \in S : x = y \/ StrLess(x, y)
         IN <<m>> \o Sorted(S \ {m})

\* rows[0].get("codes") or []
RowCodes(row) == IF "codes" \in DOMAIN row THEN row.codes ELSE <<>>

\* the rows the query of get_patient_icd_codes returns: its text names the
\* patient 'P001' and never uses the $pid parameter (query_factory.py:80)
PatientQueryRows(d, patient_id) == d.patient[P001]

\* {(c or "").strip().upper() for c in codes if c}
CleanCodes(codes) ==
    {Upper(Strip(codes[i])) : i \in {j \in DOMAIN codes : TruthyStr(codes[j])}}

get_patient_icd_codes(d, patient_id) ==
    LET rows == PatientQueryRows(d, patient_id) IN
    IF rows = <<>> THEN <<>>
    ELSE Sorted(CleanCodes(RowCodes(rows[1])))

\* the direct edges and the path over a Umls node
MappedHpo_WithUmls(d, icd_codes) ==
    {e[2] : e \in {x \in d.icd_maps_to_hpo : x[1] \in Range(icd_codes)}}
    \cup {e[2] : e \in {x \in d.umls_to_hpo :
                          \E c \in Range(icd_codes) : <<x[1], c>> \in d.umls_to_icd}}

\* MATCH (:IcdDisease {id: code})-[:ICD_MAPS_TO_HPO_PHENOTYPE]->(h:HpoPhenotype)
MappedHpo(d, icd_codes) ==
    {e[2] : e \in {x \in d.icd_maps_to_hpo : x[1] \in Range(icd_codes)}}

\* collect(DISTINCT h.id): the ids once each, in an order the database chooses
map_icd_to_hpo(d, icd_codes) ==
    IF icd_codes = <<>> THEN {<<>>} ELSE Perms(MappedHpo(d, icd_codes))

\* (h)-[:SUBCLASSOF*0..]->(anc): h itself and everything above it
RECURSIVE Ancestors(_, _)
Ancestors(d, S) ==
    LET up == S \cup {e[2] : e \in {x \in d.subclassof : x[1] \in S}} IN
    IF up = S THEN S ELSE Ancestors(d, up)

rollup_hpo_to_ancestors(d, hpo_ids) ==
    IF hpo_ids = <<>> THEN {<<>>}
    ELSE Perms(Ancestors(d, Range(hpo_ids) \cap d.hpo))
\* `got`: the disease's phenotype ids matched by WHERE dh.id IN $target
Got(d, dis, target_ids) == d.has_feature[dis] \cap Range(target_ids)

\* size(apoc.coll.intersection(target, got))
Covered(d, dis, target_ids) == Cardinality(Range(target_ids) \cap Got(d, dis, target_ids))

\* total as the size of the disease's own phenotype set
Total_OfDisease(d, dis, target_ids) == Cardinality(d.has_feature[dis])

\* size(target): the length of the list passed in
Total(d, dis, target_ids) == Len(target_ids)

\* apoc.coll.subtract(target, got), as a set (the list's order is the database's)
Missing(d, dis, target_ids) == Range(target_ids) \ Got(d, dis, target_ids)

\* round(100.0 * covered / total, 1), in tenths of a percent (667 is 66.7);
\* Cypher's round(x, 1) rounds half up
CoveragePct(covered, total) == (2000 * covered + total) \div (2 * total)

CoverageRow(d, dis, target_ids) ==
    [ diseaseId     |-> dis,
      covered       |-> Covered(d, dis, target_ids),
      total         |-> Total(d, dis, target_ids),
      coveragePct   |-> CoveragePct(Covered(d, dis, target_ids), Total(d, dis, target_ids)),
      missingHpoIds |-> Missing(d, dis, target_ids) ]

\* the rows before ORDER BY: one per disease with a feature in the target
\* (WHERE covered > 0 then holds of each)
CoverageRows(d, target_ids) ==
    {r \in {CoverageRow(d, dis, target_ids) :
              dis \in {x \in Diseases : Got(d, x, target_ids) # {}}} : r.covered > 0}

\* ORDER BY coveragePct ASC, covered ASC
OrderedBefore_Ascending(a, b) ==
    \/ a.coveragePct < b.coveragePct
    \/ a.coveragePct = b.coveragePct /\ a.covered <= b.covered

\* ORDER BY coveragePct DESC, covered DESC: a may stand before b
OrderedBefore(a, b) ==
    \/ a.coveragePct > b.coveragePct
    \/ a.coveragePct = b.coveragePct /\ a.covered >= b.covered

\* the lists compute_coverage can return (rows that tie come in any order)
compute_coverage(d, target_ids, limit) ==
    IF target_ids = <<>> THEN {<<>>}
    ELSE {Take(p, limit) :
            p \in {o \in Perms(CoverageRows(d, target_ids)) :
                     \A i, j \in DOMAIN o : i < j => OrderedBefore(o[i], o[j])}}
----------------------------------------------------------------------------
(* The agent graph (src/llm/agent.py)                                      *)

\* the questions run_agent is called with, each with the patient id the
\* patterns of node_extract_inputs recover from it
\* "rank patientId:'P1'"                       P1
Q1 == <<"r","a","n","k"," ","p","a","t","i","e","n","t","I","d",":","'","P","1","'">>
\* "Summarize patient P-2."                    P-2
Q2 == <<"S","u","m","m","a","r","i","z","e"," ","p","a","t","i","e","n","t"," ","P","-","2",".">>
\* "rank diseases"                             none
Q3 == <<"r","a","n","k"," ","d","i","s","e","a","s","e","s">>
\* "summary of ICD"                            none
Q4 == <<"s","u","m","m","a","r","y"," ","o","f"," ","I","C","D">>
\* 'PATIENTID = "p3" exam'                     p3
Q5 == <<"P","A","T","I","E","N","T","I","D"," ","="," ","\"","p","3","\""," ","e","x","a","m">>
\* "patient x-"                                x
Q6 == <<"p","a","t","i","e","n","t"," ","x","-">>
\* ""                                          none
Q7 == <<>>
\* "inpatient P1"                              none
Q8 == <<"i","n","p","a","t","i","e","n","t"," ","P","1">>
\* "patientId:'' Patient  P4 course"           P4
Q9 == <<"p","a","t","i","e","n","t","I","d",":","'","'"," ","P","a","t","i","e","n","t"," "," ","P","4"," ","c","o","u","r","s","e">>
Questions == {Q1, Q2, Q3, Q4, Q5, Q6, Q7, Q8, Q9}

\* the patient_id argument of run_agent: absent, empty, or given
PatientIdArgs == {None, <<>>, <<"P","9">>}

patient_info_keywords ==
  << <<"s","u","m","m","a","r","i","z","e">>,
     <<"s","u","m","m","a","r","y">>,
     <<"p","r","e","s","e","n","t","a","t","i","o","n">>,
     <<"f","i","n","d","i","n","g","s">>,
     <<"w","h","a","t"," ","i","s"," ","d","o","c","u","m","e","n","t","e","d">>,
     <<"d","o","c","u","m","e","n","t","e","d">>,
     <<"t","r","e","a","t","m","e","n","t">>,
     <<"t","h","e","r","a","p","y">>,
     <<"f","o","l","l","o","w","-","u","p">>,
     <<"f","o","l","l","o","w"," ","u","p">>,
     <<"v","i","t","a","l","s">>,
     <<"n","a","r","r","a","t","i","v","e">>,
     <<"e","x","a","m">>,
     <<"e","x","a","m","i","n","a","t","i","o","n">>,
     <<"d","i","a","g","n","o","s","i","s">>,
     <<"i","c","d">>,
     <<"c","l","i","n","i","c","a","l"," ","p","i","c","t","u","r","e">>,
     <<"c","o","u","r","s","e">>,
     <<"e","v","o","l","u","t","i","o","n">>,
     <<"n","l","p">>,
     <<"n","e","r"," ","e","n","t","i","t","i","e","s">>,
     <<"n","e","d"," ","e","n","t","i","t","i","e","s">> >>

\* compute_coverage(..., limit=20) in node_coverage
CoverageLimit == 20

\* the values of results and final_answer, by where they come from
OutOfDomainMessage == [kind |-> "out_of_domain"]
NoResults          == [kind |-> "none"]

\* state.get(k) or []
ListOf(s, k) == IF k \in DOMAIN s THEN s[k] ELSE <<>>
\* state.get("results")
ResultsOf(s) == IF "results" \in DOMAIN s THEN s.results ELSE NoResults
\* {**state, k: v}
With(s, k, v) == (k :> v) @@ s
\* {**state, "steps": [*(state.get("steps") or []), name]}
WithStep(s, name) == With(s, "steps", Append(ListOf(s, "steps"), name))

\* the state run_agent starts the graph with
InitialState(question, patient_id) ==
    [question |-> question, patient_id |-> patient_id, steps |-> <<>>, mode |-> "stepwise"]

node_guardrails(s, decision) ==
    IF decision = "end"
    THEN With(With(WithStep(s, "guardrails"), "results", OutOfDomainMessage),
              "final_answer", OutOfDomainMessage)
    ELSE WithStep(s, "guardrails")

node_extract_inputs(s) ==
    LET q   == s.question
        m1  == SearchPatientIdPattern(q)
        m   == IF m1 = None THEN SearchPatientWordPattern(q) ELSE m1
        pid == IF ~TruthyStr(s.patient_id) THEN m ELSE s.patient_id
    IN WithStep(With(s, "patient_id", pid), "extract")

\* node_get_icd when get_patient_icd_codes returns
node_get_icd(s, d) ==
    LET codes == IF TruthyStr(s.patient_id)
                 THEN get_patient_icd_codes(d, s.patient_id) ELSE <<>>
    IN WithStep(With(s, "icd_codes", codes), "get_icd")

\* a node's except branch: the error is recorded, the step appended
node_failed(s, name, error) == WithStep(With(s, "error", error), name)

node_icd_to_hpo(s, hpos) == WithStep(With(s, "hpo_ids", hpos), "icd_to_hpo")

node_rollup(s, targets) == WithStep(With(s, "target_ids", targets), "rollup")

node_coverage(s, results) ==
    WithStep(With(s, "results", [kind |-> "coverage", rows |-> results]), "coverage")

\* node_patient_info without a patient id: the defensive branch
node_patient_info_defensive(s) ==
    With(With(With(With(WithStep(s, "patient_info"),
        "error", "patient_info node called without patient_id"),
        "results", NoResults),
        "final_answer", [kind |-> "no_patient_id"]),
        "mode", "patient_info")

\* node_patient_info when the tool returns
node_patient_info(s) ==
    With(With(With(WithStep(s, "patient_info"),
        "results", [kind |-> "tool_result"]),
        "final_answer", [kind |-> "tool_answer"]),
        "mode", "patient_info")

\* the fallback node appending the name it is registered under
node_fallback_text2cypher_OwnName(s) ==
    With(With(With(WithStep(s, "fallback"),
        "mode", "text2cypher"),
        "results", [kind |-> "records"]),
        "_last_cypher", "cypher")

\* node_fallback_text2cypher when text2cypher_pipeline returns (cypher, recs)
node_fallback_text2cypher(s) ==
    With(With(With(WithStep(s, "text2cypher"),
        "mode", "text2cypher"),
        "results", [kind |-> "records"]),
        "_last_cypher", "cypher")

\* str(x): a string is returned as it is, any other value as its rendering
PyStr(x) == IF x = OutOfDomainMessage THEN x ELSE [kind |-> "str", of |-> x]

\* node_finalize keeping a final_answer that is already set
node_finalize_KeepAnswer(s, chain_ok) ==
    IF "final_answer" \in DOMAIN s THEN WithStep(s, "finalize")
    ELSE With(WithStep(s, "finalize"), "final_answer", [kind |-> "final_chain"])

\* node_finalize: the chain's answer, or str(results) when the chain fails
node_finalize(s, chain_ok) ==
    With(WithStep(s, "finalize"), "final_answer",
         IF chain_ok THEN [kind |-> "final_chain"]
         ELSE PyStr(ResultsOf(s)))

\* any(kw in q for kw in patient_info_keywords)
HasPatientInfoKeyword(q) ==
    \E i \in DOMAIN patient_info_keywords : Contains(q, patient_info_keywords[i])

\* route_after_extract testing the keywords against the question as typed
route_after_extract_AsTyped(s) ==
    IF ~TruthyStr(s.patient_id) THEN "fallback"
    ELSE IF HasPatientInfoKeyword(s.question) THEN "patient_info"
    ELSE "get_icd"

\* route_after_extract looking at the keywords before the patient id
route_after_extract_KeywordFirst(s) ==
    IF HasPatientInfoKeyword(Lower(s.question)) THEN "patient_info"
    ELSE IF ~TruthyStr(s.patient_id) THEN "fallback"
    ELSE "get_icd"

route_after_extract(s) ==
    IF ~TruthyStr(s.patient_id) THEN "fallback"
    ELSE IF HasPatientInfoKeyword(Lower(s.question)) THEN "patient_info"
    ELSE "get_icd"

have_icd(s)     == IF ListOf(s, "icd_codes") # <<>> THEN "icd_to_hpo" ELSE "fallback"
have_hpo(s)     == IF ListOf(s, "hpo_ids") # <<>> THEN "rollup" ELSE "fallback"
\* have_targets without its check
have_targets_Unchecked(s) == "coverage"
have_targets(s) == IF ListOf(s, "target_ids") # <<>> THEN "coverage" ELSE "fallback"

\* the graph returning early when guardrails has set the final answer
NextNode_EarlyReturn(node, s) ==
    CASE node = "guardrails"   -> IF "final_answer" \in DOMAIN s THEN "END" ELSE "extract"
      [] node = "extract"      -> route_after_extract(s)
      [] node = "get_icd"      -> have_icd(s)
      [] node = "icd_to_hpo"   -> have_hpo(s)
      [] node = "rollup"       -> have_targets(s)
      [] node = "coverage"     -> "finalize"
      [] node = "fallback"     -> "finalize"
      [] node = "patient_info" -> "END"
      [] node = "finalize"     -> "END"

\* the edges of build_graph: the node that follows `node` in state s
NextNode(node, s) ==
    CASE node = "guardrails"   -> "extract"
      [] node = "extract"      -> route_after_extract(s)
      [] node = "get_icd"      -> have_icd(s)
      [] node = "icd_to_hpo"   -> have_hpo(s)
      [] node = "rollup"       -> have_targets(s)
      [] node = "coverage"     -> "finalize"
      [] node = "fallback"     -> "finalize"
      [] node = "patient_info" -> "END"
      [] node = "finalize"     -> "END"
\* databases the agent runs against
EmptyDb ==
    [ patient         |-> [p \in PatientIds |-> <<>>],
      icd_maps_to_hpo |-> {},
      umls_to_icd     |-> {},
      umls_to_hpo     |-> {},
      hpo             |-> {},
      subclassof      |-> {},
      has_feature     |-> [dis \in Diseases |-> {}] ]
\* P001 has one encounter coded "a1"; A1 maps to H1, below H2; D1 and D2 have features
DbFull ==
    [ EmptyDb EXCEPT
        !.patient         = [p \in PatientIds |-> IF p = P001 THEN << [codes |-> << <<"a","1">> >>] >> ELSE <<>>],
        !.icd_maps_to_hpo = {<<A1, "H1">>},
        !.hpo             = {"H1", "H2", "H3"},
        !.subclassof      = {<<"H1", "H2">>},
        !.has_feature     = [dis \in Diseases |-> IF dis = "D1" THEN {"H1", "H3"}
                                                  ELSE IF dis = "D2" THEN {"H2"} ELSE {}] ]
\* the same patient, and no ICD -> HPO mapping
DbNoMapping == [DbFull EXCEPT !.icd_maps_to_hpo = {}]
\* the patient's row has a null ICD10_Codes
DbNullCodes == [DbFull EXCEPT !.patient = [p \in PatientIds |-> IF p = P001 THEN << [v |-> "node"] >> ELSE <<>>]]
\* the patient's only code is blank
DbBlankCode == [DbFull EXCEPT !.patient = [p \in PatientIds |-> IF p = P001 THEN << [codes |-> << <<" ">> >>] >> ELSE <<>>]]
AgentDbs == {EmptyDb, DbFull, DbNoMapping, DbNullCodes, DbBlankCode}

IdlePipeline == ppc = "idle" /\ pl = [idle |-> TRUE] /\ plog = <<>>
IdleQuery    == call = [fn |-> "none"] /\ ret = [done |-> TRUE]
IdleAgent    == state = [idle |-> TRUE] /\ pc = "idle" /\ trace = <<>>

\* run_agent: the graph is compiled and invoked on the initial state
Init ==
    /\ \E q \in Questions, p \in PatientIdArgs : state = InitialState(q, p)
    /\ pc = "guardrails"
    /\ trace = <<>>
    /\ db \in AgentDbs
    /\ IdlePipeline
    /\ call = [fn |-> "none"] /\ ret = [done |-> TRUE]

\* a node ran and returned s2: the graph moves along its edge
Ran(node, s2) ==
    /\ state' = s2
    /\ trace' = Append(trace, node)
    /\ pc' = NextNode(node, s2)

\* a node let an exception escape: compiled.invoke raises out of run_agent
Escaped(node) ==
    /\ state' = state
    /\ trace' = Append(trace, node)
    /\ pc' = "RAISED"

Guardrails ==
    /\ pc = "guardrails"
    /\ \/ \E decision \in {"continue", "end"} : Ran("guardrails", node_guardrails(state, decision))
       \/ Escaped("guardrails")
    /\ UNCHANGED <<db, pipeVars, call, ret>>

Extract ==
    /\ pc = "extract"
    /\ Ran("extract", node_extract_inputs(state))
    /\ UNCHANGED <<db, pipeVars, call, ret>>

GetIcd ==
    /\ pc = "get_icd"
    /\ \/ Ran("get_icd", node_get_icd(state, db))
       \/ /\ TruthyStr(state.patient_id)
          /\ Ran("get_icd", node_failed(state, "get_icd", "ICD retrieval failed"))
    /\ UNCHANGED <<db, pipeVars, call, ret>>

IcdToHpo ==
    /\ pc = "icd_to_hpo"
    /\ \/ \E hpos \in map_icd_to_hpo(db, ListOf(state, "icd_codes")) :
            Ran("icd_to_hpo", node_icd_to_hpo(state, hpos))
       \/ /\ ListOf(state, "icd_codes") # <<>>
          /\ Ran("icd_to_hpo", node_failed(state, "icd_to_hpo", "ICD->HPO mapping failed"))
    /\ UNCHANGED <<db, pipeVars, call, ret>>

Rollup ==
    /\ pc = "rollup"
    /\ \/ \E targets \in rollup_hpo_to_ancestors(db, ListOf(state, "hpo_ids")) :
            Ran("rollup", node_rollup(state, targets))
       \/ /\ ListOf(state, "hpo_ids") # <<>>
          /\ Ran("rollup", node_failed(state, "rollup", "Roll-up failed"))
    /\ UNCHANGED <<db, pipeVars, call, ret>>

Coverage ==
    /\ pc = "coverage"
    /\ \/ \E results \in compute_coverage(db, ListOf(state, "target_ids"), CoverageLimit) :
            Ran("coverage", node_coverage(state, results))
       \/ /\ ListOf(state, "target_ids") # <<>>
          /\ Ran("coverage", node_failed(state, "coverage", "Coverage failed"))
    /\ UNCHANGED <<db, pipeVars, call, ret>>

PatientInfo ==
    /\ pc = "patient_info"
    /\ IF ~TruthyStr(state.patient_id)
       THEN Ran("patient_info", node_patient_info_defensive(state))
       ELSE \/ Ran("patient_info", node_patient_info(state))
            \/ Escaped("patient_info")
    /\ UNCHANGED <<db, pipeVars, call, ret>>

Fallback ==
    /\ pc = "fallback"
    /\ \/ Ran("fallback", node_fallback_text2cypher(state))
       \/ Escaped("fallback")
    /\ UNCHANGED <<db, pipeVars, call, ret>>

Finalize ==
    /\ pc = "finalize"
    /\ \E chain_ok \in BOOLEAN : Ran("finalize", node_finalize(state, chain_ok))
    /\ UNCHANGED <<db, pipeVars, call, ret>>

Next ==
    \/ Guardrails
    \/ Extract
    \/ GetIcd
    \/ IcdToHpo
    \/ Rollup
    \/ Coverage
    \/ PatientInfo
    \/ Fallback
    \/ Finalize

Spec == Init /\ [][Next]_vars
----------------------------------------------------------------------------
(* The text-to-query pipeline (src/llm/pipeline.py)                        *)

\* Cypher texts; an LLM answer is a text, with or without a code fence around it
Queries  == {"qa", "qb", "qc"}
LlmTexts == [fence : BOOLEAN, body : Queries]
Plain(q) == [fence |-> FALSE, body |-> q]
NoText   == Plain("")

\* the messages the validation chain can report
ValidationMessages == {"v1", "v2"}

strip_code_fences(text) == [fence |-> FALSE, body |-> text.body]

\* cypher_query_corrector(generated) or generated, fences stripped
RelationshipCorrected(out, generated) ==
    strip_code_fences(IF out = NoText THEN generated ELSE out)

\* step 5 entered whatever was collected
NeedsCorrection_Always(errors) == TRUE

\* `if errors:` at step 5
NeedsCorrection(errors) == errors # <<>>

\* a failed probe after the correction sent back into the correction pass
AfterCorrectedProbe_Retry(ok) == IF ok THEN "execute" ELSE "diagnose"

\* after the probe of the query the correction chain returned
AfterCorrectedProbe(ok) == IF ok THEN "execute" ELSE "raised"

\* the final probe's outcome ignored
AfterFinalProbe_Unchecked(ok) == "execute"

\* after the final probe of the path without correction
AfterFinalProbe(ok) == IF ok THEN "execute" ELSE "raised"

\* diagnosis.fixed_cypher or corrected
CandidateCypher(fixed_cypher, corrected) ==
    IF fixed_cypher = NoText THEN corrected ELSE fixed_cypher

PipelineLocals ==
    [ generated         |-> NoText,
      corrected         |-> NoText,
      errors            |-> <<>>,
      candidate_cypher  |-> NoText,
      correction_errors |-> <<>>,
      exc               |-> "",
      returned          |-> NoText ]

Event(ev, q, ok) == [ev |-> ev, q |-> q, ok |-> ok]

InitPipeline ==
    /\ ppc = "generate"
    /\ pl = PipelineLocals
    /\ plog = <<>>
    /\ IdleAgent
    /\ db = EmptyDb
    /\ IdleQuery

\* 1) text2cypher_chain, strip_code_fences
Generate ==
    /\ ppc = "generate"
    /\ \E text \in LlmTexts :
         /\ pl' = [pl EXCEPT !.generated = strip_code_fences(text)]
         /\ plog' = Append(plog, Event("generate", text.body, TRUE))
    /\ ppc' = "explain_generated"
    /\ UNCHANGED <<agentVars, queryVars>>

\* 2) try_explain(generated)
ExplainGenerated ==
    /\ ppc = "explain_generated"
    /\ \E ok \in BOOLEAN :
         /\ pl' = [pl EXCEPT !.errors = IF ok THEN @ ELSE Append(@, "syntax_generated")]
         /\ plog' = Append(plog, Event("explain_generated", pl.generated.body, ok))
    /\ ppc' = "correct_relationships"
    /\ UNCHANGED <<agentVars, queryVars>>

\* 3) the relationship corrector; the corrected query is probed if it differs
CorrectRelationships ==
    /\ ppc = "correct_relationships"
    /\ \E out \in {Plain(q) : q \in Queries} \cup {NoText} :
         LET corrected == RelationshipCorrected(out, pl.generated) IN
         /\ pl' = [pl EXCEPT !.corrected = corrected]
         /\ plog' = Append(plog, Event("correct_relationships", corrected.body, TRUE))
         /\ ppc' = IF corrected # pl.generated THEN "explain_relcorrected" ELSE "validate"
    /\ UNCHANGED <<agentVars, queryVars>>

ExplainRelCorrected ==
    /\ ppc = "explain_relcorrected"
    /\ \E ok \in BOOLEAN :
         /\ pl' = [pl EXCEPT !.errors = IF ok THEN @ ELSE Append(@, "syntax_relcorrected")]
         /\ plog' = Append(plog, Event("explain_relcorrected", pl.corrected.body, ok))
    /\ ppc' = "validate"
    /\ UNCHANGED <<agentVars, queryVars>>

\* 4) validate_cypher_chain: the distinct messages are appended, in any order;
\* 5) errors decide between the correction pass and the final probe
Validate ==
    /\ ppc = "validate"
    /\ \E msgs \in SUBSET ValidationMessages : \E error_messages \in Perms(msgs) :
         LET errors == pl.errors \o error_messages IN
         /\ pl' = [pl EXCEPT !.errors = errors]
         /\ plog' = Append(plog, Event("validate", pl.corrected.body, msgs = {}))
         /\ ppc' = IF NeedsCorrection(errors) THEN "diagnose" ELSE "explain_final"
    /\ UNCHANGED <<agentVars, queryVars>>

\* 5) diagnose_cypher_chain
Diagnose ==
    /\ ppc = "diagnose"
    /\ \E fixed_cypher \in {Plain(q) : q \in Queries} \cup {NoText},
          issues \in {<<>>, <<"issue">>}, suggestions \in {<<>>, <<"suggestion">>} :
         /\ pl' = [pl EXCEPT
                     !.candidate_cypher  = CandidateCypher(fixed_cypher, pl.corrected),
                     !.correction_errors = pl.errors \o issues \o suggestions]
         /\ plog' = Append(plog, Event("diagnose", pl.corrected.body, TRUE))
    /\ ppc' = "correct"
    /\ UNCHANGED <<agentVars, queryVars>>

\* 5) correct_cypher_chain, strip_code_fences
Correct ==
    /\ ppc = "correct"
    /\ \E text \in LlmTexts :
         /\ pl' = [pl EXCEPT !.candidate_cypher = text,
                             !.corrected = strip_code_fences(text)]
         /\ plog' = Append(plog, Event("correct", pl.candidate_cypher.body, TRUE))
    /\ ppc' = "explain_corrected"
    /\ UNCHANGED <<agentVars, queryVars>>

\* 5) try_explain(corrected) after the correction: a failure is raised
ExplainCorrected ==
    /\ ppc = "explain_corrected"
    /\ \E ok \in BOOLEAN :
         /\ pl' = [pl EXCEPT !.exc = IF AfterCorrectedProbe(ok) = "raised"
                                     THEN "CypherSyntaxError" ELSE @]
         /\ plog' = Append(plog, Event("explain_corrected", pl.corrected.body, ok))
         /\ ppc' = AfterCorrectedProbe(ok)
    /\ UNCHANGED <<agentVars, queryVars>>

\* 5) try_explain(corrected) when nothing was to correct: a failure is raised
ExplainFinal ==
    /\ ppc = "explain_final"
    /\ \E ok \in BOOLEAN :
         /\ pl' = [pl EXCEPT !.exc = IF AfterFinalProbe(ok) = "raised"
                                     THEN "CypherSyntaxError" ELSE @]
         /\ plog' = Append(plog, Event("explain_final", pl.corrected.body, ok))
         /\ ppc' = AfterFinalProbe(ok)
    /\ UNCHANGED <<agentVars, queryVars>>

\* 6) the query is run and returned with its rows
Execute ==
    /\ ppc = "execute"
    /\ pl' = [pl EXCEPT !.corrected = strip_code_fences(pl.corrected),
                        !.returned  = strip_code_fences(pl.corrected)]
    /\ plog' = Append(plog, Event("execute", strip_code_fences(pl.corrected).body, TRUE))
    /\ ppc' = "returned"
    /\ UNCHANGED <<agentVars, queryVars>>

\* a chain or the database raises something try_explain does not catch:
\* the exception leaves the pipeline
ExternalCallPositions ==
    {"generate", "explain_generated", "explain_relcorrected", "validate", "diagnose",
     "correct", "explain_corrected", "explain_final", "execute"}

CallRaises ==
    /\ ppc \in ExternalCallPositions
    /\ pl' = [pl EXCEPT !.exc = "Exception"]
    /\ ppc' = "raised"
    /\ UNCHANGED <<plog, agentVars, queryVars>>

NextPipeline ==
    \/ Generate
    \/ ExplainGenerated
    \/ CorrectRelationships
    \/ ExplainRelCorrected
    \/ Validate
    \/ Diagnose
    \/ Correct
    \/ ExplainCorrected
    \/ ExplainFinal
    \/ Execute
    \/ CallRaises

SpecPipeline == InitPipeline /\ [][NextPipeline]_vars
----------------------------------------------------------------------------
(* The query functions called on their own (src/llm/query_factory.py)      *)

\* the raw entries of an ICD10_Codes list: null, blank, lower case, padded
RawCodes == {None, <<" ">>, <<"a","1">>, <<"A","1"," ">>, <<"b","2">>}
\* a row of the virtualized patient: its ICD10_Codes list, or none (null)
PatientRows == {[codes |-> c] : c \in SeqsUpTo(RawCodes, MaxCodes)} \cup {[v |-> "node"]}
\* the rows of the second patient
OtherPatientRows == {<<>>, << [codes |-> << <<"c","3">> >>] >>,
                     << [codes |-> << <<"a","1">> >>], [codes |-> << <<"d","4">> >>] >>}

Returned(value) == [done |-> TRUE, raised |-> FALSE, value |-> value]
Pending == [done |-> FALSE, raised |-> FALSE, value |-> <<>>]

InitIcd ==
    /\ \E rows1 \in SeqsUpTo(PatientRows, MaxRows), rows2 \in OtherPatientRows :
         db = [EmptyDb EXCEPT !.patient = [p \in PatientIds |-> IF p = P001 THEN rows1 ELSE rows2]]
    /\ \E p \in PatientIds : call = [fn |-> "get_patient_icd_codes", patient_id |-> p]
    /\ ret = Pending
    /\ IdleAgent
    /\ IdlePipeline

GetPatientIcdCodes ==
    /\ call.fn = "get_patient_icd_codes"
    /\ ~ret.done
    /\ ret' = Returned(get_patient_icd_codes(db, call.patient_id))
    /\ UNCHANGED <<db, call, agentVars, pipeVars>>

\* _run_query lets the database's exception through
QueryRaises ==
    /\ call.fn # "none"
    /\ ~ret.done
    /\ call.fn = "map_icd_to_hpo" => call.icd_codes # <<>>
    /\ call.fn = "compute_coverage" => call.target_ids # <<>>
    /\ ret' = [done |-> TRUE, raised |-> TRUE, value |-> <<>>]
    /\ UNCHANGED <<db, call, agentVars, pipeVars>>

NextIcd ==
    \/ GetPatientIcdCodes
    \/ QueryRaises

SpecIcd == InitIcd /\ [][NextIcd]_vars

\* an ICD code with no IcdDisease edge in any database here
C3 == <<"C","3">>
HpoMapped == {"H1", "H2"}

InitHpo ==
    /\ \E m \in SUBSET (IcdIds \X HpoMapped), ui \in SUBSET (UmlsIds \X IcdIds),
          uh \in SUBSET (UmlsIds \X HpoMapped) :
         db = [EmptyDb EXCEPT !.icd_maps_to_hpo = m, !.umls_to_icd = ui,
                              !.umls_to_hpo = uh, !.hpo = Phenos]
    /\ \E codes \in SeqsUpTo(IcdIds \cup {C3}, MaxCodeArgs) :
         call = [fn |-> "map_icd_to_hpo", icd_codes |-> codes]
    /\ ret = Pending
    /\ IdleAgent
    /\ IdlePipeline

MapIcdToHpo ==
    /\ call.fn = "map_icd_to_hpo"
    /\ ~ret.done
    /\ \E hpos \in map_icd_to_hpo(db, call.icd_codes) : ret' = Returned(hpos)
    /\ UNCHANGED <<db, call, agentVars, pipeVars>>

NextHpo ==
    \/ MapIcdToHpo
    \/ QueryRaises

SpecHpo == InitHpo /\ [][NextHpo]_vars

InitCoverage ==
    /\ \E f \in [Diseases -> SUBSET Phenos] :
         db = [EmptyDb EXCEPT !.has_feature = f, !.hpo = Phenos]
    /\ \E t \in SeqsUpTo(Phenos, MaxTargetLen), l \in 0..MaxLimit :
         call = [fn |-> "compute_coverage", target_ids |-> t, limit |-> l]
    /\ ret = Pending
    /\ IdleAgent
    /\ IdlePipeline

ComputeCoverage ==
    /\ call.fn = "compute_coverage"
    /\ ~ret.done
    /\ \E rows \in compute_coverage(db, call.target_ids, call.limit) : ret' = Returned(rows)
    /\ UNCHANGED <<db, call, agentVars, pipeVars>>

NextCoverage ==
    \/ ComputeCoverage
    \/ QueryRaises

SpecCoverage == InitCoverage /\ [][NextCoverage]_vars
----------------------------------------------------------------------------
(* The patient views (src/llm/pipeline_patient.py)                         *)
(* A date is <<year, month, day>>; None where a date is expected is NoDate. *)
(* A row of the virtualized patient is [id, start]: its EncounterID and    *)
(* its Encounter.period.start string (None when the property is missing).  *)

NoDate == <<>>
MaxViewRows == 3   \* rows (encounters) of the patient asked for

IsDigits(s) == s # <<>> /\ \A i \in DOMAIN s : s[i] \in Range(DigitChars)
\* int(s) of a string of digits
RECURSIVE Num(_)
Num(s) == IF s = <<>> THEN 0 ELSE 10 * Num(SubSeq(s, 1, Len(s) - 1)) + IndexIn(DigitChars, s[Len(s)]) - 1

IsLeap(y) == y % 4 = 0 /\ (y % 100 # 0 \/ y % 400 = 0)
DaysInMonth(y, m) ==
    IF m = 2 THEN (IF IsLeap(y) THEN 29 ELSE 28)
    ELSE IF m \in {4, 6, 9, 11} THEN 30 ELSE 31
\* date(y, m, d), NoDate where the constructor raises ValueError
MakeDate(y, m, d) ==
    IF y >= 1 /\ m \in 1..12 /\ d >= 1 /\ d <= DaysInMonth(y, m) THEN <<y, m, d>> ELSE NoDate

\* the calendar date written YYYY-MM-DD, NoDate when s is not one
DateOfIso(s) ==
    IF /\ Len(s) = 10
       /\ s[5] = "-" /\ s[8] = "-"
       /\ IsDigits(SubSeq(s, 1, 4)) /\ IsDigits(SubSeq(s, 6, 7)) /\ IsDigits(SubSeq(s, 9, 10))
    THEN MakeDate(Num(SubSeq(s, 1, 4)), Num(SubSeq(s, 6, 7)), Num(SubSeq(s, 9, 10)))
    ELSE NoDate

\* HH:MM:SS with fields in range
IsIsoTime(s) ==
    /\ Len(s) = 8
    /\ s[3] = ":" /\ s[6] = ":"
    /\ IsDigits(SubSeq(s, 1, 2)) /\ IsDigits(SubSeq(s, 4, 5)) /\ IsDigits(SubSeq(s, 7, 8))
    /\ Num(SubSeq(s, 1, 2)) <= 23 /\ Num(SubSeq(s, 4, 5)) <= 59 /\ Num(SubSeq(s, 7, 8)) <= 59

\* datetime.fromisoformat(value).date(): a date, or a date, one separator
\* character and a time
datetime_fromisoformat(value) ==
    IF Len(value) = 10 THEN DateOfIso(value)
    ELSE IF Len(value) = 19 /\ IsIsoTime(SubSeq(value, 12, 19)) THEN DateOfIso(SubSeq(value, 1, 10))
    ELSE NoDate

\* datetime.strptime(s, "%Y-%m-%d").date(): four digits, then one or two
\* digits for the month and for the day, nothing left over
strptime_ymd(s) ==
    LET fits == {<<i, j>> \in (1..Len(s)) \X (1..Len(s)) :
                   /\ i = 5 /\ s[i] = "-" /\ j \in {i + 2, i + 3} /\ s[j] = "-"
                   /\ Len(s) - j \in {1, 2}
                   /\ IsDigits(SubSeq(s, 1, 4))
                   /\ IsDigits(SubSeq(s, i + 1, j - 1))
                   /\ IsDigits(SubSeq(s, j + 1, Len(s)))}
    IN IF fits = {} THEN NoDate
       ELSE LET f == CHOOSE x \in fits : TRUE
            IN MakeDate(Num(SubSeq(s, 1, 4)), Num(SubSeq(s, f[1] + 1, f[2] - 1)),
                        Num(SubSeq(s, f[2] + 1, Len(s))))

_parse_encounter_start(value) ==
    IF ~TruthyStr(value) THEN NoDate
    ELSE IF datetime_fromisoformat(value) # NoDate THEN datetime_fromisoformat(value)
    ELSE strptime_ymd(Take(value, 10))

\* a < b for two dates
DateLess(a, b) ==
    \/ a[1] < b[1]
    \/ a[1] = b[1] /\ a[2] < b[2]
    \/ a[1] = b[1] /\ a[2] = b[2] /\ a[3] < b[3]

\* the interpretation of encounter_date: "all", "latest" or "date"
selection_mode(encounter_date) ==
    IF ~TruthyStr(encounter_date) THEN "all"
    ELSE IF Lower(Strip(encounter_date)) = <<"l","a","t","e","s","t">> THEN "latest"
    ELSE IF DateOfIso(Strip(encounter_date)) # NoDate THEN "date"
    ELSE "all"
requested_date(encounter_date) ==
    IF selection_mode(encounter_date) = "date" THEN DateOfIso(Strip(encounter_date)) ELSE NoDate

_build_view(row, parsed, encounter_date) ==
    [ encounter_id                |-> row.id,
      period_start                |-> row.start,
      selection_mode              |-> selection_mode(encounter_date),
      encounter_date_requested    |-> encounter_date,
      encounter_start_date_parsed |-> parsed ]

\* the rows kept whatever their date
KeepsRow_Lenient(row, encounter_date) ==
    selection_mode(encounter_date) = "date" =>
        _parse_encounter_start(row.start) \in {NoDate, requested_date(encounter_date)}

\* the loop's `continue`: in mode "date" a row needs a parsed date equal to
\* the requested one
KeepsRow(row, encounter_date) ==
    selection_mode(encounter_date) = "date" =>
        /\ _parse_encounter_start(row.start) # NoDate
        /\ _parse_encounter_start(row.start) = requested_date(encounter_date)

\* a later row replaces the chosen one only over a dated one
Replaces_DatedOnly(chosen_parsed_date, encounter_start_date) ==
    /\ encounter_start_date # NoDate
    /\ chosen_parsed_date # NoDate
    /\ DateLess(chosen_parsed_date, encounter_start_date)

\* a later row replaces the chosen one
Replaces(chosen_parsed_date, encounter_start_date) ==
    /\ encounter_start_date # NoDate
    /\ (chosen_parsed_date = NoDate \/ DateLess(chosen_parsed_date, encounter_start_date))

\* the index of the row chosen in mode "latest" among the first n rows
RECURSIVE Chosen(_, _)
Chosen(rows, n) ==
    IF n = 1 THEN 1
    ELSE LET c == Chosen(rows, n - 1) IN
         IF Replaces(_parse_encounter_start(rows[c].start), _parse_encounter_start(rows[n].start))
         THEN n ELSE c

RECURSIVE SelectRows(_, _)
SelectRows(rows, p) ==
    IF rows = <<>> THEN <<>>
    ELSE (IF KeepsRow(rows[1], p) THEN <<rows[1]>> ELSE <<>>) \o SelectRows(Tail(rows), p)

get_patient_views(d, patient_id, encounter_date) ==
    LET rows == d.patient[patient_id] IN
    IF rows = <<>> THEN <<>>
    ELSE IF selection_mode(encounter_date) = "latest"
    THEN LET r == rows[Chosen(rows, Len(rows))]
         IN << _build_view(r, _parse_encounter_start(r.start), encounter_date) >>
    ELSE LET kept == SelectRows(rows, encounter_date)
         IN [i \in DOMAIN kept |->
               _build_view(kept[i], _parse_encounter_start(kept[i].start), encounter_date)]

D0615  == <<"2","0","2","3","-","0","6","-","1","5">>
D0615T == <<"2","0","2","3","-","0","6","-","1","5","T","1","0",":","3","0",":","0","0">>
D0615X == <<"2","0","2","3","-","0","6","-","1","5"," ","a","m">>
D0110  == <<"2","0","2","3","-","0","1","-","1","0">>
D0230  == <<"2","0","2","3","-","0","2","-","3","0">>
\* Encounter.period.start values: missing, empty, a date, a date and time, a
\* date followed by text, another date, a day that does not exist, free text
StartStrings == {None, <<>>, D0615, D0615T, D0615X, D0110, D0230, <<"J","u","n","e">>}
\* encounter_date arguments
EncounterDateArgs == {None, <<>>, <<"l","a","t","e","s","t">>, <<" ","L","a","t","e","s","t">>,
                      D0615, <<" ">> \o D0110, D0230, D0615T}

ViewRows(starts) == [i \in DOMAIN starts |-> [id |-> i, start |-> starts[i]]]

InitViews ==
    /\ \E s1 \in SeqsUpTo(StartStrings, MaxViewRows), s2 \in {<<>>, <<D0615>>} :
         db = [EmptyDb EXCEPT !.patient =
                 [p \in PatientIds |-> IF p = P001 THEN ViewRows(s1) ELSE ViewRows(s2)]]
    /\ \E p \in PatientIds, e \in EncounterDateArgs :
         call = [fn |-> "get_patient_views", patient_id |-> p, encounter_date |-> e]
    /\ ret = Pending
    /\ IdleAgent
    /\ IdlePipeline

GetPatientViews ==
    /\ call.fn = "get_patient_views"
    /\ ~ret.done
    /\ ret' = Returned(get_patient_views(db, call.patient_id, call.encounter_date))
    /\ UNCHANGED <<db, call, agentVars, pipeVars>>

NextViews ==
    \/ GetPatientViews
    \/ QueryRaises

SpecViews == InitViews /\ [][NextViews]_vars
----------------------------------------------------------------------------
(* The ICD group range expansion (src/factory/icd10_group.py)              *)

IsLetter(c) == c \in Range(LowerLetters) \cup Range(UpperLetters)
\* the length of the run of letters s starts with
RECURSIVE LetterRun(_)
LetterRun(s) == IF s # <<>> /\ IsLetter(s[1]) THEN 1 + LetterRun(Tail(s)) ELSE 0
\* re.fullmatch(r'([A-Za-z]+)(\d+)', s)
FullMatchCode(s) ==
    /\ LetterRun(s) >= 1
    /\ LetterRun(s) < Len(s)
    /\ IsDigits(SubSeq(s, LetterRun(s) + 1, Len(s)))
\* the two groups of the match
CodePrefix(s) == SubSeq(s, 1, LetterRun(s))
CodeDigits(s) == SubSeq(s, LetterRun(s) + 1, Len(s))

\* str(n) for n >= 0
RECURSIVE Decimal(_)
Decimal(n) == IF n < 10 THEN <<DigitChars[n + 1]>> ELSE Decimal(n \div 10) \o <<DigitChars[(n % 10) + 1]>>
\* f"{i:0{width}d}"
RECURSIVE ZeroPad(_, _)
ZeroPad(s, width) == IF Len(s) >= width THEN s ELSE ZeroPad(<<"0">> \o s, width)

\* list(range(start, stop, step)) for step 1 or -1
RECURSIVE RangeList(_, _, _)
RangeList(start, stop, step) ==
    IF (step > 0 /\ start >= stop) \/ (step < 0 /\ start <= stop) THEN <<>>
    ELSE <<start>> \o RangeList(start + step, stop, step)

\* the padding taken from the first bound alone
Width_OfStart(n1s, n2s) == Len(n1s)

\* max(len(n1s), len(n2s))
Width(n1s, n2s) == IF Len(n1s) >= Len(n2s) THEN Len(n1s) ELSE Len(n2s)

Step(n1, n2) == IF n2 >= n1 THEN 1 ELSE -1

\* the value returned, or raised when a bound is not letters and digits
alphanum_range(start, end) ==
    IF ~FullMatchCode(start) \/ ~FullMatchCode(end)
    THEN [done |-> TRUE, raised |-> TRUE, value |-> <<>>]
    ELSE IF CodePrefix(start) # CodePrefix(end) THEN Returned(<<>>)
    ELSE LET n1    == Num(CodeDigits(start))
             n2    == Num(CodeDigits(end))
             width == Width(CodeDigits(start), CodeDigits(end))
             nums  == RangeList(n1, n2 + Step(n1, n2), Step(n1, n2))
         IN Returned([k \in DOMAIN nums |-> CodePrefix(start) \o ZeroPad(Decimal(nums[k]), width)])

\* range bounds as they occur in the group file, and some that are not codes
RangeBounds ==
    { <<"A","0","0">>, <<"A","0","3">>, <<"A","9">>, <<"A","1","0">>, <<"B","0","2">>,
      <<"A","A","0","0","7">>, <<"A","A","0","0","9">>, <<"a","0","1">>, <<"7">>, <<"A">>,
      <<"A","0","x">> }

InitRange ==
    /\ \E s, e \in RangeBounds : call = [fn |-> "alphanum_range", start |-> s, end |-> e]
    /\ ret = Pending
    /\ db = EmptyDb
    /\ IdleAgent
    /\ IdlePipeline

AlphanumRange ==
    /\ call.fn = "alphanum_range"
    /\ ~ret.done
    /\ ret' = alphanum_range(call.start, call.end)
    /\ UNCHANGED <<db, call, agentVars, pipeVars>>

NextRange == AlphanumRange

SpecRange == InitRange /\ [][NextRange]_vars
----------------------------------------------------------------------------
(* The UMLS cross-mapping importer (src/factory/umls_map.py)               *)
(* Here db is [umls_ids, umls_nodes, umls_rels]: the umls_ids list of each *)
(* target node (a null list is the empty one: coalesce), the Umls nodes    *)
(* and the UMLS_TO_* relationships.  call is the run of import_data: the   *)
(* rows of the file, the mapping step, the next row and the run number.    *)
(* ret.merged records every (target, CUI) a row was applied to.            *)

MaxUmlsRows   == 2   \* rows of the concordance file
MaxImportRuns == 2   \* times import_data is run on the file

UmlsTargets ==
    { [label |-> "IcdDisease",   id |-> <<"A","1">>],
      [label |-> "HpoPhenotype", id |-> <<"H","1">>],
      [label |-> "HpoDisease",   id |-> <<"O",":","7">>] }
Cuis == {"C0001", "C0002"}
\* get_rows: columns 0, 11 and 13 of a line
UmlsRows ==
    { [id |-> c, type_source |-> ts[1], code |-> ts[2]] :
        c \in Cuis,
        ts \in { << <<"I">>, <<"A","1">> >>, << <<"H">>, <<"H","1">> >>,
                 << <<"O">>, <<"7">> >>, << <<"X">>, <<"7">> >> } }

MapSteps == <<"map_to_icd", "map_to_hpo_phen", "map_to_hpo_disease">>

\* the nodes the MATCH ... WHERE of a step finds for a row
MatchedTargets(step, item) ==
    IF step = "map_to_icd"
    THEN {t \in UmlsTargets : t.label = "IcdDisease" /\ t.id = item.code}
    ELSE IF step = "map_to_hpo_phen"
    THEN {t \in UmlsTargets : t.label = "HpoPhenotype" /\ t.id = item.code}
    ELSE {t \in UmlsTargets : t.label = "HpoDisease" /\ t.id = item.type_source \o <<":">> \o item.code}

\* the id is added whether or not the list holds it
MergeUmlsId_Always(umls_ids, id) == Append(umls_ids, id)

\* CASE WHEN item.id in t.umls_ids THEN t.umls_ids
\*      ELSE coalesce(t.umls_ids, []) + item.id END
MergeUmlsId(umls_ids, id) ==
    IF id \in Range(umls_ids) THEN umls_ids ELSE Append(umls_ids, id)

\* one row of the batch run through the query of a step
ApplyUmlsRow(d, step, item) ==
    LET ts == MatchedTargets(step, item) IN
    IF ts = {} THEN d
    ELSE [ umls_ids   |-> [t \in UmlsTargets |->
                             IF t \in ts THEN MergeUmlsId(d.umls_ids[t], item.id) ELSE d.umls_ids[t]],
           umls_nodes |-> d.umls_nodes \cup {item.id},
           umls_rels  |-> d.umls_rels \cup {<<item.id, t>> : t \in ts} ]

InitUmls ==
    /\ db = [umls_ids |-> [t \in UmlsTargets |-> <<>>], umls_nodes |-> {}, umls_rels |-> {}]
    /\ \E rows \in SeqsUpTo(UmlsRows, MaxUmlsRows) :
         call = [fn |-> "import_data", rows |-> rows, step |-> 1, i |-> 1, run |-> 1]
    /\ ret = [done |-> FALSE, raised |-> FALSE, merged |-> {}]
    /\ IdleAgent
    /\ IdlePipeline

\* batch_store runs the step's query over the next row of the file
MapUmlsRow ==
    /\ call.fn = "import_data"
    /\ ~ret.done
    /\ call.i <= Len(call.rows)
    /\ db' = ApplyUmlsRow(db, MapSteps[call.step], call.rows[call.i])
    /\ ret' = [ret EXCEPT !.merged =
                 @ \cup {<<t, call.rows[call.i].id>> :
                           t \in MatchedTargets(MapSteps[call.step], call.rows[call.i])}]
    /\ call' = [call EXCEPT !.i = @ + 1]
    /\ UNCHANGED <<agentVars, pipeVars>>

\* import_data goes on to the next mapping, and returns after the third
NextUmlsStep ==
    /\ call.fn = "import_data"
    /\ ~ret.done
    /\ call.i > Len(call.rows)
    /\ IF call.step < Len(MapSteps)
       THEN call' = [call EXCEPT !.step = @ + 1, !.i = 1] /\ ret' = ret
       ELSE call' = call /\ ret' = [ret EXCEPT !.done = TRUE]
    /\ UNCHANGED <<db, agentVars, pipeVars>>

\* the importer is run again on the file
RunImportAgain ==
    /\ call.fn = "import_data"
    /\ ret.done
    /\ call.run < MaxImportRuns
    /\ call' = [call EXCEPT !.run = @ + 1, !.step = 1, !.i = 1]
    /\ ret' = [ret EXCEPT !.done = FALSE]
    /\ UNCHANGED <<db, agentVars, pipeVars>>

NextUmls ==
    \/ MapUmlsRow
    \/ NextUmlsStep
    \/ RunImportAgain

SpecUmls == InitUmls /\ [][NextUmls]_vars
----------------------------------------------------------------------------
(* The embedding client (src/llm/utils.py; the same code is in             *)
(* src/factory/ontology_map.py)                                            *)
(* ret.posts counts the requests sent to /embed; ret.response is the data  *)
(* field of the answer, when there was one.                                *)

MaxTexts   == 2   \* texts passed to embed_many
MaxVectors == 3   \* vectors in one answer of the service

Texts   == {"a", "b", "c"}
Vectors == {"va", "vb"}

\* the answer is accepted when it is long enough
CountMatches_AtLeast(vectors, texts) == Len(vectors) >= Len(texts)

\* not (len(vectors) != len(texts))
CountMatches(vectors, texts) == Len(vectors) = Len(texts)

\* embed_many, given what the service answers to the request if one is sent
embed_many(texts, response) ==
    IF texts = <<>>
    THEN [done |-> TRUE, raised |-> FALSE, value |-> <<>>, posts |-> 0, response |-> <<>>]
    ELSE IF ~CountMatches(response, texts)
    THEN [done |-> TRUE, raised |-> TRUE, value |-> <<>>, posts |-> 1, response |-> response]
    ELSE [done |-> TRUE, raised |-> FALSE, value |-> response, posts |-> 1, response |-> response]

InitEmbed ==
    /\ \E texts \in SeqsUpTo(Texts, MaxTexts) : call = [fn |-> "embed_many", texts |-> texts]
    /\ ret = [done |-> FALSE, raised |-> FALSE, value |-> <<>>, posts |-> 0, response |-> <<>>]
    /\ db = EmptyDb
    /\ IdleAgent
    /\ IdlePipeline

EmbedMany ==
    /\ call.fn = "embed_many"
    /\ ~ret.done
    /\ \E response \in SeqsUpTo(Vectors, MaxVectors) :
         /\ call.texts = <<>> => response = <<>>
         /\ ret' = embed_many(call.texts, response)
    /\ UNCHANGED <<db, call, agentVars, pipeVars>>

\* api.post raises (HTTP or connection error)
EmbedPostRaises ==
    /\ call.fn = "embed_many"
    /\ ~ret.done
    /\ call.texts # <<>>
    /\ ret' = [done |-> TRUE, raised |-> TRUE, value |-> <<>>, posts |-> 1, response |-> <<>>]
    /\ UNCHANGED <<db, call, agentVars, pipeVars>>

NextEmbed ==
    \/ EmbedMany
    \/ EmbedPostRaises

SpecEmbed == InitEmbed /\ [][NextEmbed]_vars
----------------------------------------------------------------------------
(* The ontology mapper (src/factory/ontology_map.py)                       *)
(* Here db is [processed, edges]: the IcdDisease ids that carry the label  *)
(* ProcessedWithOntologyMapper and the ICD_MAPS_TO_HPO_PHENOTYPE edges     *)
(* <<source id, target id, confidence>>.  A confidence is a number of      *)
(* ten-thousandths.  call is the run of merge_mapping_relationship: its    *)
(* position pc, the rows selected, the chunk being handled (first, the     *)
(* decisions for it, the next decision k) and the run number.  ret keeps   *)
(* the history of the current run: what it selected and which sources     *)
(* were labelled then, the decisions filtered and the items handed to the  *)
(* write.                                                                  *)

MaxMapperRuns == 2   \* times merge_mapping_relationship is run

LlmThreshold == 7000            \* self.llm_threshold = 0.7
DisambiguationBatchSize == 8    \* get_source_nodes_in_batch(batch_size=8)

MapperSources == {"R55", "G44"}
HpoTargets    == {<<"H","P","1">>, <<"H","P","2">>}
\* what the validated response of the tool can hold: best_id is a string,
\* the id of a target or of no node; confidence is within [0, 1]
BestIds     == {<<"H","P","1">>, <<"H","P","9">>}
Confidences == {6999, 7000, 9000}
LlmResponses == {[best_id |-> b, confidence |-> c] : b \in BestIds, c \in Confidences}

DegradedDecision ==
    [best_id |-> None, confidence |-> 0, rationale |-> "Failed to parse LLM response."]

\* the try block of disambiguate_candidates_batch_sync on one response of
\* the tool
MappingDecisionOf(resp) ==
    IF {"best_id", "confidence"} \subseteq DOMAIN resp
    THEN [best_id |-> resp.best_id, confidence |-> resp.confidence, rationale |-> ""]
    ELSE DegradedDecision

\* the threshold is exclusive
PassesThreshold_Strict(md) == md.confidence > LlmThreshold

\* md.confidence >= self.llm_threshold
PassesThreshold(md) == md.confidence >= LlmThreshold

\* every source, labelled or not
Unprocessed_All(d) == MapperSources

\* MATCH (n:IcdDisease) WHERE NOT "ProcessedWithOntologyMapper" IN labels(n)
Unprocessed(d) == MapperSources \ d.processed

\* rows[i:i + batch_size]
Chunk(rows, first) ==
    SubSeq(rows, first, IF first + DisambiguationBatchSize - 1 < Len(rows)
                        THEN first + DisambiguationBatchSize - 1 ELSE Len(rows))

\* the write query on one item: both MATCHes must find a node, then the
\* edge is merged, its confidence set and the source labelled
WriteMapping(d, sid, md) ==
    IF md.best_id \notin HpoTargets THEN d
    ELSE [ processed |-> d.processed \cup {sid},
           edges     |-> {e \in d.edges : ~(e[1] = sid /\ e[2] = md.best_id)}
                         \cup {<<sid, md.best_id, md.confidence>>} ]

InitMapper ==
    /\ db = [processed |-> {}, edges |-> {}]
    /\ call = [fn |-> "merge_mapping_relationship", pc |-> "select", rows |-> <<>>,
               first |-> 1, decisions |-> <<>>, k |-> 1, run |-> 1]
    /\ ret = [done |-> FALSE, raised |-> FALSE, selected |-> <<>>, labelled |-> {},
              filtered |-> {}, handed |-> {}]
    /\ IdleAgent
    /\ IdlePipeline

MapperAt(p) == call.fn = "merge_mapping_relationship" /\ call.pc = p

\* get_source_nodes_in_batch reads the unprocessed sources, in the order the
\* database gives them
SelectSources ==
    /\ MapperAt("select")
    /\ \E rows \in Perms(Unprocessed(db)) :
         /\ call' = [call EXCEPT !.rows = rows, !.first = 1, !.decisions = <<>>, !.k = 1,
                                 !.pc = IF rows = <<>> THEN "done" ELSE "disambiguate"]
         /\ ret' = [ret EXCEPT !.selected = rows, !.labelled = db.processed,
                               !.filtered = {}, !.handed = {}, !.done = (rows = <<>>)]
    /\ UNCHANGED <<db, agentVars, pipeVars>>

\* run_disambiguation_in_batch on the chunk: one decision per source, in order
Disambiguate ==
    /\ MapperAt("disambiguate")
    /\ \E resps \in [DOMAIN Chunk(call.rows, call.first) -> LlmResponses] :
         call' = [call EXCEPT !.decisions = [i \in DOMAIN resps |-> MappingDecisionOf(resps[i])],
                              !.k = 1, !.pc = "filter"]
    /\ UNCHANGED <<db, ret, agentVars, pipeVars>>

\* the structured output of one item does not parse or validate: the chain
\* raises inside tool.abatch, outside the try block, and the exception leaves
\* the generator, batch_store and merge_mapping_relationship
DisambiguateParseFails ==
    /\ MapperAt("disambiguate")
    /\ call' = [call EXCEPT !.pc = "RAISED"]
    /\ ret' = [ret EXCEPT !.raised = TRUE, !.done = TRUE]
    /\ UNCHANGED <<db, agentVars, pipeVars>>

\* the next decision of the chunk: yielded and written when it passes the
\* threshold, dropped otherwise
FilterAndWrite ==
    /\ MapperAt("filter")
    /\ call.k <= Len(call.decisions)
    /\ LET sid == call.rows[call.first + call.k - 1]
           md  == call.decisions[call.k]
       IN /\ db' = IF PassesThreshold(md) THEN WriteMapping(db, sid, md) ELSE db
          /\ ret' = [ret EXCEPT !.filtered = @ \cup {<<sid, md>>},
                                !.handed = IF PassesThreshold(md)
                                           THEN @ \cup {<<sid, md>>} ELSE @]
    /\ call' = [call EXCEPT !.k = @ + 1]
    /\ UNCHANGED <<agentVars, pipeVars>>

\* the chunk is exhausted: the next chunk, or the end of the run
NextChunk ==
    /\ MapperAt("filter")
    /\ call.k > Len(call.decisions)
    /\ IF call.first + DisambiguationBatchSize <= Len(call.rows)
       THEN /\ call' = [call EXCEPT !.first = @ + DisambiguationBatchSize, !.pc = "disambiguate"]
            /\ ret' = ret
       ELSE /\ call' = [call EXCEPT !.pc = "done"]
            /\ ret' = [ret EXCEPT !.done = TRUE]
    /\ UNCHANGED <<db, agentVars, pipeVars>>

\* the mapper is run again
RunMapperAgain ==
    /\ MapperAt("done")
    /\ call.run < MaxMapperRuns
    /\ call' = [call EXCEPT !.run = @ + 1, !.pc = "select"]
    /\ ret' = [ret EXCEPT !.done = FALSE]
    /\ UNCHANGED <<db, agentVars, pipeVars>>

NextMapper ==
    \/ SelectSources
    \/ Disambiguate
    \/ DisambiguateParseFails
    \/ FilterAndWrite
    \/ NextChunk
    \/ RunMapperAgain

SpecMapper == InitMapper /\ [][NextMapper]_vars
----------------------------------------------------------------------------
(* _run_query (src/llm/query_factory.py)                                   *)
(* call.attempt is the local of that name; ret.calls counts the calls of   *)
(* enhanced_graph.query, ret.waits lists the sleeps in tenths of a second  *)
(* and ret.errors the exceptions the database raised.                      *)

DefaultRetries == 2   \* retries: int = 2

TransientErrors == {"ServiceUnavailable", "SessionExpired"}
OtherErrors     == {"CypherSyntaxError", "ClientError"}
CypherTexts     == {"icd", "hpo", "rollup", "coverage"}
QueryResults    == {<<>>, <<"row">>}

\* a failure is retried also when attempt has reached retries
MayRetry_Inclusive(attempt, retries) == attempt <= retries

\* not (attempt >= retries)
MayRetry(attempt, retries) == ~(attempt >= retries)

\* time.sleep(0.5 * attempt), in tenths of a second
BackoffTenths(attempt) == 5 * attempt

InitRunQuery ==
    /\ \E c \in CypherTexts :
         call = [fn |-> "_run_query", cypher |-> c, retries |-> DefaultRetries, attempt |-> 0]
    /\ ret = [done |-> FALSE, raised |-> FALSE, value |-> <<>>, calls |-> 0,
              waits |-> <<>>, errors |-> <<>>]
    /\ db = EmptyDb
    /\ IdleAgent
    /\ IdlePipeline

RunQueryPending == call.fn = "_run_query" /\ ~ret.done

\* enhanced_graph.query returns
QuerySucceeds ==
    /\ RunQueryPending
    /\ \E rows \in QueryResults :
         ret' = [ret EXCEPT !.done = TRUE, !.value = rows, !.calls = @ + 1]
    /\ UNCHANGED <<db, call, agentVars, pipeVars>>

\* enhanced_graph.query raises ServiceUnavailable or SessionExpired
QueryFailsTransient ==
    /\ RunQueryPending
    /\ \E e \in TransientErrors :
         IF MayRetry(call.attempt, call.retries)
         THEN /\ call' = [call EXCEPT !.attempt = @ + 1]
              /\ ret' = [ret EXCEPT !.calls = @ + 1, !.errors = Append(@, e),
                                    !.waits = Append(@, BackoffTenths(call.attempt + 1))]
         ELSE /\ call' = call
              /\ ret' = [ret EXCEPT !.calls = @ + 1, !.errors = Append(@, e),
                                    !.done = TRUE, !.raised = TRUE]
    /\ UNCHANGED <<db, agentVars, pipeVars>>

\* enhanced_graph.query raises anything else
QueryFailsOther ==
    /\ RunQueryPending
    /\ \E e \in OtherErrors :
         ret' = [ret EXCEPT !.calls = @ + 1, !.errors = Append(@, e),
                            !.done = TRUE, !.raised = TRUE]
    /\ UNCHANGED <<db, call, agentVars, pipeVars>>

NextRunQuery ==
    \/ QuerySucceeds
    \/ QueryFailsTransient
    \/ QueryFailsOther

SpecRunQuery == InitRunQuery /\ [][NextRunQuery]_vars
(* The configuration loader (src/util/config_loader.py) and the importer   *)
(* constructors that call it.  db is the configuration file: whether       *)
(* ConfigParser.read could read it, the uri option of each section it      *)
(* holds (None when the section has no uri option) and the uri option of   *)
(* its DEFAULT section, which every section inherits.  call.api_service    *)
(* is the environment variable API_SERVICE (None when unset).              *)

SvcChat      == <<"c","h","a","t">>
SvcEmbedding == <<"e","m","b","e","d","d","i","n","g">>
SvcNeo4j     == <<"n","e","o","4","j">>
SvcLlm       == <<"l","l","m">>
SecChatApi      == <<"c","h","a","t","-","a","p","i">>
SecEmbeddingApi == <<"e","m","b","e","d","d","i","n","g","-","a","p","i">>
SecNeo4j        == <<"n","e","o","4","j">>
SecApi          == <<"a","p","i">>

\* section_map = {"chat": "chat-api", "embedding": "embedding-api", "neo4j": "neo4j"}
section_map == (SvcChat :> SecChatApi) @@ (SvcEmbedding :> SecEmbeddingApi) @@ (SvcNeo4j :> SecNeo4j)

\* str.rstrip("/") that removes one slash only
RStripSlash_Once(s) == IF s # <<>> /\ s[Len(s)] = "/" THEN SubSeq(s, 1, Len(s) - 1) ELSE s

\* str.rstrip("/")
RECURSIVE RStripSlash(_)
RStripSlash(s) == IF s # <<>> /\ s[Len(s)] = "/" THEN RStripSlash(SubSeq(s, 1, Len(s) - 1)) ELSE s

\* os.getenv(name, default)
GetEnv(value, default) == IF value = None THEN default ELSE value

\* cfg.get(section, "uri", fallback=""): the section's option, else the
\* DEFAULT section's, else the fallback
CfgGetUri(file, section) ==
    IF file.sections[section] # None THEN file.sections[section]
    ELSE IF file.default_uri # None THEN file.default_uri
    ELSE <<>>

ReturnsUri(v) == [raised |-> FALSE, error |-> "", value |-> v]
RaisesError(e)   == [raised |-> TRUE, error |-> e, value |-> None]

load_config(env_section, file, api_env) ==
    LET section == IF TruthyStr(env_section) THEN env_section ELSE GetEnv(api_env, SecApi)
    IN  IF ~file.readable THEN RaisesError("FileNotFoundError")
        ELSE IF section \notin DOMAIN file.sections THEN RaisesError("KeyError")
        ELSE LET uri == RStripSlash(Strip(CfgGetUri(file, section)))
             IN  IF uri = <<>> THEN RaisesError("ValueError(uri)") ELSE ReturnsUri(uri)

load_config_api(service, file, api_service) ==
    LET svc == Lower(IF TruthyStr(service) THEN service ELSE GetEnv(api_service, SvcChat))
    IN  IF svc \notin DOMAIN section_map THEN RaisesError("ValueError(service)")
        ELSE load_config(section_map[svc], file, None)

\* the service names each constructor passes, in the order of its calls
Importers == {"HPOEmbeddingImporter", "IcdEmbeddingImporter", "OntologyMapper", "PatientAnnotator"}
ServicesOf(importer) ==
    CASE importer = "HPOEmbeddingImporter" -> <<SvcEmbedding>>
      [] importer = "IcdEmbeddingImporter" -> <<SvcEmbedding>>
      [] importer = "OntologyMapper"       -> <<SvcEmbedding, SvcLlm>>
      [] importer = "PatientAnnotator"     -> <<SvcEmbedding, SvcLlm>>

\* __init__: the calls of load_config_api in order; the first that raises ends it
RECURSIVE construct(_, _, _)
construct(services, file, api_service) ==
    IF services = <<>> THEN ReturnsUri(<<>>)
    ELSE LET r == load_config_api(Head(services), file, api_service)
         IN  IF r.raised THEN r
             ELSE LET rest == construct(Tail(services), file, api_service)
                  IN  IF rest.raised THEN rest ELSE ReturnsUri(<<r.value>> \o rest.value)

ConfigSections == {SecChatApi, SecEmbeddingApi, SecNeo4j}
UriOptions     == {None, <<>>, <<"/">>, <<"h">>, <<"h","/","/">>}
ServiceArgs    == {None, <<>>, SvcChat, <<"C","h","a","t">>, SvcEmbedding, SvcNeo4j, SvcLlm}
ApiServiceEnvs == {None, SvcEmbedding, SvcLlm}
ConfigFiles ==
    {[readable |-> r, sections |-> s, default_uri |-> d] :
        r \in BOOLEAN,
        s \in UNION {[S -> UriOptions] : S \in SUBSET ConfigSections},
        d \in {None, <<"d","/">>}}

InitConfig ==
    /\ db \in ConfigFiles
    /\ \/ \E s \in ServiceArgs, e \in ApiServiceEnvs :
            call = [fn |-> "load_config_api", service |-> s, api_service |-> e]
       \/ \E i \in Importers :
            call = [fn |-> "__init__", importer |-> i, api_service |-> None]
    /\ ret = [done |-> FALSE, raised |-> FALSE, error |-> "", value |-> None]
    /\ IdleAgent
    /\ IdlePipeline

LoadConfigApi ==
    /\ call.fn = "load_config_api" /\ ~ret.done
    /\ ret' = [done |-> TRUE] @@ load_config_api(call.service, db, call.api_service)
    /\ UNCHANGED <<db, call, agentVars, pipeVars>>

ConstructImporter ==
    /\ call.fn = "__init__" /\ ~ret.done
    /\ ret' = [done |-> TRUE] @@ construct(ServicesOf(call.importer), db, call.api_service)
    /\ UNCHANGED <<db, call, agentVars, pipeVars>>

NextConfig ==
    \/ LoadConfigApi
    \/ ConstructImporter

SpecConfig == InitConfig /\ [][NextConfig]_vars
----------------------------------------------------------------------------
(* The ICD group importer (src/factory/icd10_group.py): import_data runs   *)
(* merge_nodes and then merge_rels over the rows of the group file.  db    *)
(* holds the IcdGroup, IcdChapter and IcdDisease ids and the two kinds of  *)
(* edges; call.phase and call.k say which statement treats which row.      *)

MaxGroupRows == 2

GroupIds    == {"1", "2"}
GroupRanges == { << <<"A","0","0">>, <<"A","0","1">> >>, << <<"A","0","1">>, <<"A","0","1">> >> }
DiseaseIds  == { <<"A","0","0">>, <<"A","0","1">> }

\* get_rows: one dict for each line of the file
GroupRow(id, bounds) == [id |-> id, diseaseRange |-> alphanum_range(bounds[1], bounds[2]).value]
GroupRows == {GroupRow(id, b) : id \in GroupIds, b \in GroupRanges}
GroupFiles == UNION {[1..n -> GroupRows] : n \in 1..MaxGroupRows}

\* MERGE (d:IcdGroup {id: item.id})
merge_nodes_item(d, item) == [d EXCEPT !.groups = @ \cup {item.id}]

\* the statement of merge_rels for one item of the batch: a row for which
\* either MATCH finds nothing is dropped before the second UNWIND
merge_rels_item(d, item) ==
    IF item.id \in d.groups /\ item.id \in d.chapters
    THEN [d EXCEPT
            !.group_in_chapter  = @ \cup {<<item.id, item.id>>},
            !.group_has_disease = @ \cup {<<item.id, code>> :
                                             code \in Range(item.diseaseRange) \cap d.diseases}]
    ELSE d

InitGroup ==
    /\ \E chapters \in SUBSET GroupIds, diseases \in SUBSET DiseaseIds :
         db = [groups |-> {}, chapters |-> chapters, diseases |-> diseases,
               group_in_chapter |-> {}, group_has_disease |-> {}]
    /\ \E rows \in GroupFiles :
         call = [fn |-> "import_data", rows |-> rows, phase |-> "merge_nodes", k |-> 1]
    /\ ret = [done |-> FALSE]
    /\ IdleAgent
    /\ IdlePipeline

GroupAt(phase) == call.fn = "import_data" /\ ~ret.done /\ call.phase = phase /\ call.k <= Len(call.rows)

MergeNodesItem ==
    /\ GroupAt("merge_nodes")
    /\ db' = merge_nodes_item(db, call.rows[call.k])
    /\ call' = IF call.k = Len(call.rows)
               THEN [call EXCEPT !.phase = "merge_rels", !.k = 1]
               ELSE [call EXCEPT !.k = @ + 1]
    /\ UNCHANGED <<ret, agentVars, pipeVars>>

MergeRelsItem ==
    /\ GroupAt("merge_rels")
    /\ db' = merge_rels_item(db, call.rows[call.k])
    /\ call' = [call EXCEPT !.k = @ + 1]
    /\ ret' = [done |-> call.k = Len(call.rows)]
    /\ UNCHANGED <<agentVars, pipeVars>>

NextGroup ==
    \/ MergeNodesItem
    \/ MergeRelsItem

SpecGroup == InitGroup /\ [][NextGroup]_vars
----------------------------------------------------------------------------
(* The embedding importers (src/factory/hpo_embedding.py,                  *)
(* src/factory/icd10_embedding.py): add_phen_label_embeddings and          *)
(* _add_embeddings_for are the same loop.  db.nodes are the nodes of the   *)
(* label in the order the database streams them, a node's id being its     *)
(* position; call holds the locals of the loop; ret.batches lists, for     *)
(* each call of the embedding service, the ids and texts sent, the vectors *)
(* returned and whether the write statement ran; ret.writes counts the     *)
(* SETs of each node.                                                      *)

MaxEmbedNodes == 3
MaxBatchSize  == 2

VectorValues == {<<"va">>, <<"vb">>}
NodeTexts    == {None, <<>>, <<"t">>}
EmbedNodes   == {[text |-> t, embedding |-> e] : t \in NodeTexts, e \in {None, <<"old">>}}
EmbedFunctions == {"add_phen_label_embeddings", "_add_embeddings_for"}

\* the ids of the nodes that satisfy Test, in stream order
IdsWhere(nodes, Test(_)) ==
    SelectSeq([i \in DOMAIN nodes |-> i], LAMBDA i : Test(nodes[i]))

\* WHERE n.embedding IS NULL: count(n)
MissingEmbedding(n) == n.embedding = None
\* WHERE n.embedding IS NULL AND n.text IS NOT NULL
Fetched(n) == n.embedding = None /\ n.text # None

\* the check of _embed_labels letting through more vectors than texts
EmbeddingCountOk_AtLeast(vectors, texts) == Len(vectors) >= Len(texts)

\* not (len(vectors) != len(texts))
EmbeddingCountOk(vectors, texts) == ~(Len(vectors) # Len(texts))

\* zip(buffer_ids, embeddings): as many rows as the shorter of the two
ZipRows(ids, embeddings) ==
    [i \in 1..(IF Len(ids) <= Len(embeddings) THEN Len(ids) ELSE Len(embeddings)) |->
        [id |-> ids[i], embedding |-> embeddings[i]]]

\* UNWIND $rows AS row MATCH (n {id: row.id}) SET n.embedding = row.embedding
WriteRows(nodes, rows) ==
    [n \in DOMAIN nodes |->
        IF \E k \in DOMAIN rows : rows[k].id = n
        THEN [nodes[n] EXCEPT !.embedding =
                 rows[CHOOSE k \in DOMAIN rows :
                        rows[k].id = n /\ \A j \in DOMAIN rows : rows[j].id = n => j <= k].embedding]
        ELSE nodes[n]]

\* what the service may answer to n texts: one vector each, or one less or more
ServiceAnswers(n) ==
    UNION {[1..m -> VectorValues] : m \in {k \in {n - 1, n, n + 1} : k >= 0}}

InitEmbedImport ==
    /\ \E nodes \in UNION {[1..n -> EmbedNodes] : n \in 0..MaxEmbedNodes} :
         db = [nodes |-> nodes]
    /\ \E f \in EmbedFunctions, b \in 1..MaxBatchSize :
         call = [fn |-> f, batch_size |-> b, pc |-> "start", stream |-> <<>>, pos |-> 1,
                 buffer_ids |-> <<>>, buffer_texts |-> <<>>, after |-> "loop"]
    /\ ret = [done |-> FALSE, raised |-> FALSE, batches |-> <<>>,
              writes |-> [n \in DOMAIN db.nodes |-> 0]]
    /\ IdleAgent
    /\ IdlePipeline

EmbedImportAt(p) == call.fn \in EmbedFunctions /\ ~ret.done /\ call.pc = p

\* total = count of the nodes without embedding; nothing to do when it is 0;
\* otherwise the fetch query is run
StartEmbeddings ==
    /\ EmbedImportAt("start")
    /\ IF IdsWhere(db.nodes, MissingEmbedding) = <<>>
       THEN /\ ret' = [ret EXCEPT !.done = TRUE]
            /\ call' = [call EXCEPT !.pc = "done"]
       ELSE /\ ret' = ret
            /\ call' = [call EXCEPT !.pc = "loop", !.stream = IdsWhere(db.nodes, Fetched)]
    /\ UNCHANGED <<db, agentVars, pipeVars>>

\* for rec in result: a record without text is skipped, another is buffered
\* and the buffer is flushed when it has reached batch_size
NextRecord ==
    /\ EmbedImportAt("loop")
    /\ call.pos <= Len(call.stream)
    /\ LET id   == call.stream[call.pos]
           text == db.nodes[id].text
       IN  IF ~TruthyStr(text)
           THEN call' = [call EXCEPT !.pos = @ + 1]
           ELSE call' = [call EXCEPT
                           !.pos = @ + 1,
                           !.buffer_ids = Append(@, id),
                           !.buffer_texts = Append(@, text),
                           !.pc = IF Len(call.buffer_texts) + 1 >= call.batch_size
                                  THEN "flush" ELSE "loop",
                           !.after = "loop"]
    /\ UNCHANGED <<db, ret, agentVars, pipeVars>>

\* the stream has ended: flush() of the remainder, which returns at once
\* when the buffer is empty
EndOfStream ==
    /\ EmbedImportAt("loop")
    /\ call.pos > Len(call.stream)
    /\ IF call.buffer_texts = <<>>
       THEN /\ call' = [call EXCEPT !.pc = "done"]
            /\ ret' = [ret EXCEPT !.done = TRUE]
       ELSE /\ call' = [call EXCEPT !.pc = "flush", !.after = "end"]
            /\ ret' = ret
    /\ UNCHANGED <<db, agentVars, pipeVars>>

\* flush(): _embed_labels returns, the rows are written in one statement
FlushWrites ==
    /\ EmbedImportAt("flush")
    /\ \E vectors \in ServiceAnswers(Len(call.buffer_texts)) :
         /\ EmbeddingCountOk(vectors, call.buffer_texts)
         /\ LET rows == ZipRows(call.buffer_ids, vectors) IN
            /\ db' = [db EXCEPT !.nodes = WriteRows(@, rows)]
            /\ ret' = [ret EXCEPT
                         !.batches = Append(@, [ids |-> call.buffer_ids, texts |-> call.buffer_texts,
                                                vectors |-> vectors, written |-> TRUE]),
                         !.writes = [n \in DOMAIN @ |->
                                        @[n] + Cardinality({k \in DOMAIN rows : rows[k].id = n})],
                         !.done = call.after = "end"]
    /\ call' = [call EXCEPT !.buffer_ids = <<>>, !.buffer_texts = <<>>,
                            !.pc = IF call.after = "end" THEN "done" ELSE "loop"]
    /\ UNCHANGED <<agentVars, pipeVars>>

\* flush(): _embed_labels raises RuntimeError, nothing is written
FlushCountMismatch ==
    /\ EmbedImportAt("flush")
    /\ \E vectors \in ServiceAnswers(Len(call.buffer_texts)) :
         /\ ~EmbeddingCountOk(vectors, call.buffer_texts)
         /\ ret' = [ret EXCEPT
                      !.batches = Append(@, [ids |-> call.buffer_ids, texts |-> call.buffer_texts,
                                             vectors |-> vectors, written |-> FALSE]),
                      !.done = TRUE, !.raised = TRUE]
    /\ call' = [call EXCEPT !.pc = "raised"]
    /\ UNCHANGED <<db, agentVars, pipeVars>>

NextEmbedImport ==
    \/ StartEmbeddings
    \/ NextRecord
    \/ EndOfStream
    \/ FlushWrites
    \/ FlushCountMismatch

SpecEmbedImport == InitEmbedImport /\ [][NextEmbedImport]_vars
----------------------------------------------------------------------------
(* disambiguate_candidates_batch_sync (src/factory/ontology_map.py): the   *)
(* calls of one chunk.  tool.abatch starts one call of the tool for each   *)
(* payload, lets at most max_concurrency of them run at a time and gives   *)
(* their results in the order of the payloads; asyncio.run returns when    *)
(* the coroutine has.  call.status is where each call is, ret.order the    *)
(* order in which the calls completed and ret.peak the largest number of   *)
(* calls that ran at once.                                                 *)

MaxChunkItems == 3
MaxInFlight   == 2

AbatchSources == {"R55", "G44", "I10"}

\* the answer of the model to the payload built for a source
AnswerFor(source) == [best_id |-> <<"HP", source>>, confidence |-> 9000]

\* the results handed to the caller in the order the calls completed
RawResponses_AsCompleted(results, order) == [k \in DOMAIN order |-> results[order[k]]]

\* raw_responses: the results of abatch, one for each payload, in their order
RawResponses(results, order) == [i \in DOMAIN order |-> results[i]]

InFlight(status) == {i \in DOMAIN status : status[i] = "running"}

\* the semaphore of abatch letting one more call through
MayStart_OneMore(status, max_concurrency) == Cardinality(InFlight(status)) <= max_concurrency

\* the semaphore of abatch
MayStart(status, max_concurrency) == Cardinality(InFlight(status)) < max_concurrency

InitAbatch ==
    /\ \E S \in SUBSET AbatchSources : \E sources \in Perms(S), m \in 1..MaxInFlight :
         /\ Len(sources) \in 1..MaxChunkItems
         /\ call = [fn |-> "disambiguate_candidates_batch_sync", sources |-> sources,
                    max_concurrency |-> m, pc |-> "abatch",
                    status |-> [i \in DOMAIN sources |-> "waiting"],
                    results |-> [i \in DOMAIN sources |-> None]]
    /\ ret = [done |-> FALSE, raised |-> FALSE, value |-> <<>>, order |-> <<>>, peak |-> 0]
    /\ db = EmptyDb
    /\ IdleAgent
    /\ IdlePipeline

AbatchRunning == call.fn = "disambiguate_candidates_batch_sync" /\ call.pc = "abatch"

\* a call of the tool is started
StartToolCall ==
    /\ AbatchRunning
    /\ MayStart(call.status, call.max_concurrency)
    /\ \E i \in DOMAIN call.status :
         /\ call.status[i] = "waiting"
         /\ call' = [call EXCEPT !.status[i] = "running"]
         /\ ret' = [ret EXCEPT !.peak = IF Cardinality(InFlight(call.status)) + 1 > @
                                        THEN Cardinality(InFlight(call.status)) + 1 ELSE @]
    /\ UNCHANGED <<db, agentVars, pipeVars>>

\* a call of the tool returns its result
ToolCallReturns ==
    /\ AbatchRunning
    /\ \E i \in InFlight(call.status) :
         /\ call' = [call EXCEPT !.status[i] = "done",
                                 !.results[i] = AnswerFor(call.sources[i])]
         /\ ret' = [ret EXCEPT !.order = Append(@, i)]
    /\ UNCHANGED <<db, agentVars, pipeVars>>

\* a call of the tool raises: abatch and asyncio.run raise, nothing is returned
ToolCallRaises ==
    /\ AbatchRunning
    /\ \E i \in InFlight(call.status) :
         call' = [call EXCEPT !.status[i] = "raised", !.pc = "RAISED"]
    /\ ret' = [ret EXCEPT !.done = TRUE, !.raised = TRUE]
    /\ UNCHANGED <<db, agentVars, pipeVars>>

\* every call has returned: asyncio.run returns raw_responses and the loop
\* builds one MappingDecision for each, in their order
ReturnDecisions ==
    /\ AbatchRunning
    /\ \A i \in DOMAIN call.status : call.status[i] = "done"
    /\ LET raw_responses == RawResponses(call.results, ret.order) IN
       ret' = [ret EXCEPT !.done = TRUE,
                          !.value = [i \in DOMAIN raw_responses |-> MappingDecisionOf(raw_responses[i])]]
    /\ call' = [call EXCEPT !.pc = "returned"]
    /\ UNCHANGED <<db, agentVars, pipeVars>>

NextAbatch ==
    \/ StartToolCall
    \/ ToolCallReturns
    \/ ToolCallRaises
    \/ ReturnDecisions

SpecAbatch == InitAbatch /\ [][NextAbatch]_vars
----------------------------------------------------------------------------
(* The claims                                                              *)

LastNode == IF trace = <<>> THEN "" ELSE trace[Len(trace)]
\* the list under key k is set and not empty
NonEmptyList(k) == k \in DOMAIN state /\ state[k] # <<>>
\* the questions that name a patient, and those that hold an intent keyword
\* in any case, read off their text
QuestionsWithPatientId == {Q1, Q2, Q5, Q6, Q9}
QuestionsWithKeyword   == {Q2, Q4, Q5, Q9}

\* C1: the node after extract is fallback when no patient id was passed to
\* run_agent or recovered from the question, patient_info when there is one
\* and the lower-cased question holds a patient-info keyword, get_icd when
\* there is one and no keyword occurs.
C1_RouteAfterExtract ==
    LastNode = "extract" =>
        LET present == \/ state.patient_id = <<"P","9">>
                       \/ state.question \in QuestionsWithPatientId
            keyword == state.question \in QuestionsWithKeyword
        IN pc = IF ~present THEN "fallback"
                ELSE IF keyword THEN "patient_info" ELSE "get_icd"

\* "Summarize patient P-2.": the id is recovered, the keyword matches in lower case
C1_Witness ==
    /\ LastNode = "extract"
    /\ state.question = Q2
    /\ state.patient_id = <<"P","-","2">>
    /\ pc = "patient_info"

\* C2: get_icd is followed by icd_to_hpo only with icd_codes non-empty,
\* icd_to_hpo by rollup only with hpo_ids non-empty, rollup by coverage only
\* with target_ids non-empty; with the list empty or left unset by a failed
\* call the next node is fallback; coverage never runs with an empty target set.
C2_StepwiseGuards ==
    /\ LastNode = "get_icd" =>
         pc = IF NonEmptyList("icd_codes") THEN "icd_to_hpo" ELSE "fallback"
    /\ LastNode = "icd_to_hpo" =>
         pc = IF NonEmptyList("hpo_ids") THEN "rollup" ELSE "fallback"
    /\ LastNode = "rollup" =>
         pc = IF NonEmptyList("target_ids") THEN "coverage" ELSE "fallback"
    /\ (LastNode \in {"get_icd", "icd_to_hpo", "rollup"} /\ "error" \in DOMAIN state)
         => pc = "fallback"
    /\ (pc = "coverage" \/ "coverage" \in Range(trace)) => NonEmptyList("target_ids")

\* the three guards passed and coverage is about to run
C2_Witness ==
    /\ trace = <<"guardrails", "extract", "get_icd", "icd_to_hpo", "rollup">>
    /\ pc = "coverage"

\* C3: a failure of the call of guardrails, get_icd, icd_to_hpo, rollup,
\* coverage, patient_info, fallback or finalize is caught inside the node and
\* run_agent returns its summary instead of raising.
C3_NodeFailuresCaught == pc # "RAISED"

EventCount(ev) == Cardinality({i \in DOMAIN plog : plog[i].ev = ev})

\* C4: the diagnosis chain and the correction chain are each invoked at most
\* once in one invocation; a failed probe of the query the correction chain
\* returned is raised as a syntax error and nothing is done after it.
C4_SingleCorrectionPass ==
    /\ EventCount("diagnose") <= 1
    /\ EventCount("correct") <= 1
    /\ \A i \in DOMAIN plog :
         (plog[i].ev = "explain_corrected" /\ ~plog[i].ok) =>
            /\ i = Len(plog)
            /\ ppc = "raised"
            /\ pl.exc = "CypherSyntaxError"

\* three errors were collected, one correction pass ran and its probe failed
C4_Witness ==
    /\ Len(pl.errors) >= 3
    /\ ppc = "raised"
    /\ plog # <<>>
    /\ plog[Len(plog)].ev = "explain_corrected"
    /\ ~plog[Len(plog)].ok

\* the probes before the validation passed and the validation found nothing
CleanRun ==
    \E i \in DOMAIN plog :
        /\ plog[i].ev = "validate"
        /\ \A j \in 1..i : plog[j].ok

RelationshipCorrectedQuery ==
    plog[CHOOSE i \in DOMAIN plog : plog[i].ev = "correct_relationships"].q

\* C5: when the generated query and the relationship-corrected query pass
\* their probes and the validation reports no errors, neither the diagnosis
\* nor the correction chain is invoked, one final probe is made whose failure
\* is raised, and the query executed and returned is the relationship-corrected one.
C5_NoCorrectionNeeded ==
    CleanRun =>
        /\ EventCount("diagnose") = 0
        /\ EventCount("correct") = 0
        /\ EventCount("explain_final") <= 1
        /\ ppc \in {"execute", "returned"} =>
             \E i \in DOMAIN plog :
                 /\ plog[i] = Event("explain_final", RelationshipCorrectedQuery, TRUE)
                 /\ \A j \in DOMAIN plog : (j > i) => plog[j].ev = "execute"
        /\ ppc = "returned" =>
             /\ plog[Len(plog)] = Event("execute", RelationshipCorrectedQuery, TRUE)
             /\ EventCount("execute") = 1
             /\ pl.returned = Plain(RelationshipCorrectedQuery)
        /\ (\E i \in DOMAIN plog : plog[i].ev = "explain_final" /\ ~plog[i].ok) =>
             /\ ppc = "raised"
             /\ pl.exc = "CypherSyntaxError"
             /\ EventCount("execute") = 0

\* the corrector changed the query, nothing was found wrong, the query was run
C5_Witness ==
    /\ CleanRun
    /\ ppc = "returned"
    /\ pl.generated # pl.corrected
    /\ EventCount("explain_relcorrected") = 1

CoverageReturned == call.fn = "compute_coverage" /\ ret.done /\ ~ret.raised
TargetSet == Range(call.target_ids)
\* the diseases with a phenotype in the target set
Eligible == {dis \in Diseases : db.has_feature[dis] \cap TargetSet # {}}
Abs(x) == IF x < 0 THEN -x ELSE x
\* pct (in tenths) is 100 * num / den rounded to one decimal
IsRoundedPct(pct, num, den) == 2 * Abs(1000 * num - pct * den) <= den

C7_OrderedByCovered ==
    CoverageReturned =>
        /\ Len(ret.value) <= call.limit
        /\ \A i, j \in DOMAIN ret.value :
             i < j => ret.value[i].covered >= ret.value[j].covered
        /\ \A dis \in Eligible \ {ret.value[i].diseaseId : i \in DOMAIN ret.value} :
             \A i \in DOMAIN ret.value :
                 Cardinality(db.has_feature[dis] \cap TargetSet) <= ret.value[i].covered

\* three diseases qualify, two rows are returned with different counts
C7_Witness ==
    /\ CoverageReturned
    /\ Cardinality(Eligible) = 3
    /\ Len(ret.value) = 2
    /\ ret.value[1].covered > ret.value[2].covered

IcdReturned == call.fn = "get_patient_icd_codes" /\ ret.done /\ ~ret.raised

\* C8: get_patient_icd_codes(patient_id) returns the union of the ICD10_Codes
\* lists of every row of the patient identified by patient_id, and no code
\* that occurs only in rows of another patient.
C8_CodesOfThePatient ==
    IcdReturned =>
        Range(ret.value) =
            UNION {CleanCodes(RowCodes(db.patient[call.patient_id][i])) :
                     i \in DOMAIN db.patient[call.patient_id]}

\* C9: whatever raw codes the database returns, the list returned is sorted
\* ascending, has no duplicates, contains no empty string and every element
\* is upper case.
C9_SortedUpperNonEmpty ==
    IcdReturned =>
        /\ \A i, j \in DOMAIN ret.value : i < j => StrLess(ret.value[i], ret.value[j])
        /\ \A i \in DOMAIN ret.value :
             /\ ret.value[i] # <<>>
             /\ Upper(ret.value[i]) = ret.value[i]

HpoReturned == call.fn = "map_icd_to_hpo" /\ ret.done /\ ~ret.raised
\* the HPO ids one ICD_MAPS_TO_HPO_PHENOTYPE edge away from a code
DirectHpo ==
    {h \in Phenos : \E c \in Range(call.icd_codes) : <<c, h>> \in db.icd_maps_to_hpo}
\* the HPO ids reached over a Umls node tied to a code
IndirectHpo ==
    {h \in Phenos : \E c \in Range(call.icd_codes), u \in UmlsIds :
        <<u, c>> \in db.umls_to_icd /\ <<u, h>> \in db.umls_to_hpo}

\* C10 (as stated): map_icd_to_hpo returns, without duplicates, every HPO id
\* reachable from a code directly or over a Umls node; an id reachable only
\* over the Umls path is included.
C10_DirectAndUmlsPaths ==
    HpoReturned =>
        /\ Range(ret.value) = DirectHpo \cup IndirectHpo
        /\ Len(ret.value) = Cardinality(Range(ret.value))

\* C10 (amended): map_icd_to_hpo returns, without duplicates, exactly the HPO
\* ids reachable from a code directly over ICD_MAPS_TO_HPO_PHENOTYPE; an id
\* reachable only over the Umls path is not included.
C10_DirectPathOnly ==
    HpoReturned =>
        /\ Range(ret.value) = DirectHpo
        /\ Len(ret.value) = Cardinality(Range(ret.value))
        /\ \A h \in IndirectHpo \ DirectHpo : h \notin Range(ret.value)

\* a code maps directly to one id and over a Umls node to another
C10_Witness ==
    /\ HpoReturned
    /\ ret.value # <<>>
    /\ IndirectHpo \ DirectHpo # {}

ViewsReturned == call.fn = "get_patient_views" /\ ret.done /\ ~ret.raised
\* the raw rows of the patient asked for
RawRows == db.patient[call.patient_id]
\* the rows whose start parses to the calendar date asked for
RowsOfRequestedDate ==
    {i \in DOMAIN RawRows :
        /\ _parse_encounter_start(RawRows[i].start) # NoDate
        /\ _parse_encounter_start(RawRows[i].start) = DateOfIso(Strip(call.encounter_date))}
ReturnedIds == {ret.value[i].encounter_id : i \in DOMAIN ret.value}
InRowOrder ==
    \A i, j \in DOMAIN ret.value : i < j => ret.value[i].encounter_id < ret.value[j].encounter_id

\* C11: with encounter_date absent get_patient_views returns one view per raw
\* row of the patient, in row order; with an ISO date it returns exactly the
\* rows whose parsed Encounter.period.start is that calendar date, in row
\* order, dropping unparseable and different rows, and the empty list when
\* no row matches.
C11_AllOrMatchingDate ==
    ViewsReturned =>
        /\ call.encounter_date = None =>
             /\ Len(ret.value) = Len(RawRows)
             /\ \A i \in DOMAIN RawRows :
                  /\ ret.value[i].encounter_id = RawRows[i].id
                  /\ ret.value[i].period_start = RawRows[i].start
        /\ (TruthyStr(call.encounter_date) /\ DateOfIso(Strip(call.encounter_date)) # NoDate) =>
             /\ ReturnedIds = RowsOfRequestedDate
             /\ InRowOrder
             /\ \A i \in DOMAIN ret.value :
                  ret.value[i].period_start = RawRows[ret.value[i].encounter_id].start
             /\ RowsOfRequestedDate = {} => ret.value = <<>>

\* a date was asked for; of three rows one matches, one is of another day
\* and one does not parse
C11_Witness ==
    /\ ViewsReturned
    /\ TruthyStr(call.encounter_date) /\ DateOfIso(Strip(call.encounter_date)) # NoDate
    /\ Len(RawRows) = 3
    /\ Len(ret.value) = 1
    /\ \E i \in DOMAIN RawRows : _parse_encounter_start(RawRows[i].start) = NoDate
    /\ \E i \in DOMAIN RawRows :
         _parse_encounter_start(RawRows[i].start) \notin {NoDate, DateOfIso(Strip(call.encounter_date))}

LatestRequested ==
    TruthyStr(call.encounter_date) /\ Lower(Strip(call.encounter_date)) = <<"l","a","t","e","s","t">>

\* C12: with encounter_date 'latest' get_patient_views returns one view when
\* the patient has a row and the empty list when it has none; when a row has
\* a parseable start, the returned row's date is parseable and not before
\* the date of any other row.
C12_LatestWins ==
    (ViewsReturned /\ LatestRequested) =>
        /\ RawRows = <<>> => ret.value = <<>>
        /\ RawRows # <<>> =>
             /\ Len(ret.value) = 1
             /\ ret.value[1].period_start = RawRows[ret.value[1].encounter_id].start
             /\ \A i \in DOMAIN RawRows :
                  _parse_encounter_start(RawRows[i].start) # NoDate =>
                      /\ _parse_encounter_start(ret.value[1].period_start) # NoDate
                      /\ ~DateLess(_parse_encounter_start(ret.value[1].period_start),
                                   _parse_encounter_start(RawRows[i].start))

\* the first row does not parse, two later rows have different dates, and the
\* view returned is not the first row's
C12_Witness ==
    /\ ViewsReturned
    /\ LatestRequested
    /\ Len(RawRows) = 3
    /\ _parse_encounter_start(RawRows[1].start) = NoDate
    /\ _parse_encounter_start(RawRows[2].start) # NoDate
    /\ _parse_encounter_start(RawRows[3].start) # NoDate
    /\ _parse_encounter_start(RawRows[2].start) # _parse_encounter_start(RawRows[3].start)
    /\ Len(ret.value) = 1
    /\ ret.value[1].encounter_id # 1

RangeDone == call.fn = "alphanum_range" /\ ret.done
Max(a, b) == IF a >= b THEN a ELSE b

\* C13: for two bounds <letters><digits> with the same letters alphanum_range
\* returns |n_end - n_start| + 1 codes, from start's number to end's number
\* in steps of +1 or -1, each the letters followed by the number zero-padded
\* to the larger digit-length of the two bounds; with different letters it
\* returns the empty list and does not raise.
C13_InclusiveRange ==
    (RangeDone /\ FullMatchCode(call.start) /\ FullMatchCode(call.end)) =>
        LET n1  == Num(CodeDigits(call.start))
            n2  == Num(CodeDigits(call.end))
            dir == IF n1 <= n2 THEN 1 ELSE -1
            w   == Max(Len(CodeDigits(call.start)), Len(CodeDigits(call.end)))
        IN /\ ~ret.raised
           /\ CodePrefix(call.start) # CodePrefix(call.end) => ret.value = <<>>
           /\ CodePrefix(call.start) = CodePrefix(call.end) =>
                /\ Len(ret.value) = Abs(n2 - n1) + 1
                /\ \A k \in DOMAIN ret.value :
                     ret.value[k] = CodePrefix(call.start) \o ZeroPad(Decimal(n1 + (k - 1) * dir), w)

\* a descending range whose bounds have different digit-lengths: A10 .. A9
C13_Witness ==
    /\ RangeDone
    /\ call.start = <<"A","1","0">>
    /\ call.end = <<"A","9">>
    /\ ret.value = << <<"A","1","0">>, <<"A","0","9">> >>

IsPrefix(s, t) == Len(s) <= Len(t) /\ SubSeq(t, 1, Len(s)) = s
UmlsImporting == call.fn = "import_data"

\* every merged CUI of a target is in its umls_ids, once, and nothing else is
UmlsIdsDeduplicated ==
    UmlsImporting =>
        \A t \in UmlsTargets :
            /\ Range(db.umls_ids[t]) = {c \in Cuis : <<t, c>> \in ret.merged}
            /\ Len(db.umls_ids[t]) = Cardinality(Range(db.umls_ids[t]))
\* a step leaves a list as it is or adds at its end a CUI merged for the
\* first time
UmlsIdsAppendOnly ==
    UmlsImporting =>
        \A t \in UmlsTargets :
            \/ db'.umls_ids[t] = db.umls_ids[t]
            \/ /\ IsPrefix(db.umls_ids[t], db'.umls_ids[t])
               /\ Len(db'.umls_ids[t]) = Len(db.umls_ids[t]) + 1
               /\ <<t, db'.umls_ids[t][Len(db'.umls_ids[t])]>> \in ret'.merged \ ret.merged

\* C14: after any rows applied by map_to_icd, map_to_hpo_phen and
\* map_to_hpo_disease, the same row twice and the import run again included,
\* every target's umls_ids holds each merged CUI exactly once, in the order
\* of first merge, and no step removes or reorders an element of a list.
C14_UmlsIdsAppendOnlyDeduplicated ==
    []UmlsIdsDeduplicated /\ [][UmlsIdsAppendOnly]_vars

\* after the second run over two rows that merge two CUIs into one target
C14_Witness ==
    /\ UmlsImporting
    /\ call.run = 2
    /\ ret.done
    /\ Len(call.rows) = 2
    /\ \E t \in UmlsTargets : Len(db.umls_ids[t]) = 2

EmbedDone == call.fn = "embed_many" /\ ret.done

\* C15: embed_many returns the service's vectors as answered when there are
\* len(texts) of them, raises and returns nothing when the service answers
\* with any other number, and for an empty list returns the empty list
\* without sending a request.
C15_EmbedCountChecked ==
    EmbedDone =>
        /\ call.texts = <<>> => (~ret.raised /\ ret.value = <<>> /\ ret.posts = 0)
        /\ (call.texts # <<>> /\ ret.posts = 1 /\ Len(ret.response) = Len(call.texts)
              /\ ret.response # <<>>) =>
             (~ret.raised /\ ret.value = ret.response)
        /\ (call.texts # <<>> /\ Len(ret.response) # Len(call.texts)) =>
             (ret.raised /\ ret.value = <<>>)

\* two texts were sent and the service answered with three vectors
C15_Witness ==
    /\ EmbedDone
    /\ Len(call.texts) = 2
    /\ Len(ret.response) = 3
    /\ ret.raised

MapperRunning == call.fn = "merge_mapping_relationship"

\* C16 (as stated): when merge_mapping_relationship has completed, every
\* source evaluated in the run carries ProcessedWithOntologyMapper, also one
\* whose decision was below the threshold or named no target.
C16_EvaluatedSourcesProcessed ==
    (MapperAt("done") /\ ~ret.raised) => Range(ret.selected) \subseteq db.processed

\* C17: a decision is handed on to the write if and only if its confidence
\* is at least 0.7, 0.7 itself included, and every ICD_MAPS_TO_HPO_PHENOTYPE
\* edge written has confidence at least 0.7.
C17_ThresholdInclusive ==
    MapperRunning =>
        /\ \A f \in ret.filtered : (f \in ret.handed) <=> (f[2].confidence >= 7000)
        /\ ret.handed \subseteq ret.filtered
        /\ \A e \in db.edges : e[3] >= 7000

\* a decision of exactly 0.7 was handed on and written, one of 0.6999 was not
C17_Witness ==
    /\ MapperAt("done")
    /\ \E f \in ret.handed : f[2].confidence = 7000 /\ <<f[1], f[2].best_id, 7000>> \in db.edges
    /\ \E f \in ret.filtered \ ret.handed : f[2].confidence = 6999

\* C18: a source labelled ProcessedWithOntologyMapper has an outgoing
\* ICD_MAPS_TO_HPO_PHENOTYPE edge, and no run selects a source that was
\* labelled when the run read its sources.
C18_ProcessedHasEdgeNotReselected ==
    MapperRunning =>
        /\ \A s \in db.processed : \E e \in db.edges : e[1] = s
        /\ Range(ret.selected) \cap ret.labelled = {}

\* the second run read its sources when one was labelled and one was not
C18_Witness ==
    /\ MapperRunning
    /\ call.run = 2
    /\ call.pc = "disambiguate"
    /\ ret.labelled # {}
    /\ ret.selected # <<>>

\* C20 (as stated): a structured response that fails parsing or validation
\* gives that item a degraded decision and the run goes on; the failure does
\* not abort the chunk or the run.
C20_ParseFailureDegrades ==
    MapperRunning => (call.pc # "RAISED" /\ ~ret.raised)

RunQueryCalled == call.fn = "_run_query"

\* C19: _run_query calls the database at most 3 times; a transient failure
\* on attempt n <= 2 is followed by a wait of 0.5*n seconds and a retry, the
\* third transient failure is propagated, any other exception is propagated
\* at once, and the first success is returned without further calls.
C19_AtMostThreeCalls ==
    RunQueryCalled =>
        /\ ret.calls <= 3
        /\ Len(ret.waits) <= 2
        /\ \A n \in DOMAIN ret.waits : ret.waits[n] = 5 * n
        /\ \A n \in DOMAIN ret.errors :
              (ret.errors[n] \in TransientErrors /\ n <= 2) => n \in DOMAIN ret.waits
        /\ \A n \in DOMAIN ret.errors :
              (ret.errors[n] \in OtherErrors \/ n = 3) =>
                  (n = ret.calls /\ ret.done /\ ret.raised /\ Len(ret.waits) = n - 1)
        /\ ~ret.done => ret.calls = Len(ret.waits)
        /\ (ret.done /\ ~ret.raised) =>
              (ret.calls = Len(ret.errors) + 1 /\ Len(ret.waits) = Len(ret.errors))

\* three transient failures: two waits of 0.5 s and 1.0 s, then the third
\* failure is raised
C19_Witness ==
    /\ RunQueryCalled
    /\ ret.calls = 3
    /\ ret.waits = <<5, 10>>
    /\ ret.raised
    /\ ret.errors[3] \in TransientErrors

ConfigLoaded == call.fn = "load_config_api" /\ ret.done
RecognizedServices == {SvcChat, SvcEmbedding, SvcNeo4j}
SectionFor(svc) ==
    CASE svc = SvcChat -> SecChatApi
      [] svc = SvcEmbedding -> SecEmbeddingApi
      [] svc = SvcNeo4j -> SecNeo4j
NoTrailingSlash(s) == s = <<>> \/ s[Len(s)] # "/"
\* what load_config_api must do for service name svc when uri is the value
\* looked up for the mapped section
ConfigOutcome(svc, uri(_)) ==
    IF svc \notin RecognizedServices THEN ret.raised /\ ret.error = "ValueError(service)"
    ELSE IF ~db.readable THEN ret.raised /\ ret.error = "FileNotFoundError"
    ELSE IF SectionFor(svc) \notin DOMAIN db.sections THEN ret.raised /\ ret.error = "KeyError"
    ELSE IF RStripSlash(Strip(uri(SectionFor(svc)))) = <<>>
         THEN ret.raised /\ ret.error = "ValueError(uri)"
    ELSE /\ ~ret.raised
         /\ ret.value = RStripSlash(Strip(uri(SectionFor(svc))))
         /\ NoTrailingSlash(ret.value)
         /\ Len(ret.value) <= Len(uri(SectionFor(svc)))
OwnUri(section) == IF db.sections[section] = None THEN <<>> ELSE db.sections[section]
InheritedUri(section) ==
    IF db.sections[section] # None THEN db.sections[section]
    ELSE IF db.default_uri # None THEN db.default_uri ELSE <<>>
EffectiveService ==
    Lower(IF call.service \in {None, <<>>}
          THEN (IF call.api_service = None THEN SvcChat ELSE call.api_service)
          ELSE call.service)

\* C21 as stated: the service argument is compared as given with 'chat',
\* 'embedding' and 'neo4j', any other argument fails with ValueError, and a
\* section without a uri option of its own fails with ValueError.
C21_AsStated == (ConfigLoaded /\ TruthyStr(call.service)) => ConfigOutcome(call.service, OwnUri)

\* C21: load_config_api lower-cases the service name, taking API_SERVICE
\* (default 'chat') when the argument is absent or empty; it maps 'chat' to
\* [chat-api], 'embedding' to [embedding-api] and 'neo4j' to [neo4j] and
\* returns the uri of that section, inherited from DEFAULT when the section
\* has none, with trailing slashes stripped; it fails with ValueError for
\* any other name, FileNotFoundError for an unreadable file, KeyError for
\* an absent section and ValueError for a missing or empty uri.
C21_LoadConfigApi == ConfigLoaded => ConfigOutcome(EffectiveService, InheritedUri)

\* 'embedding' resolved to the uri of [embedding-api] with two trailing
\* slashes removed
C21_Witness ==
    /\ ConfigLoaded
    /\ call.service = SvcEmbedding
    /\ db.readable
    /\ SecEmbeddingApi \in DOMAIN db.sections
    /\ db.sections[SecEmbeddingApi] = <<"h","/","/">>
    /\ ~ret.raised
    /\ ret.value = <<"h">>

Constructed == call.fn = "__init__" /\ ret.done
CompleteConfig ==
    /\ db.readable
    /\ DOMAIN db.sections = ConfigSections
    /\ \A s \in ConfigSections :
         db.sections[s] # None /\ RStripSlash(Strip(db.sections[s])) # <<>>

\* C29: with a configuration file holding all sections with non-empty uri,
\* constructing the ontology mapper, the patient annotator or an embedding
\* importer never fails with the unknown-service error.
C29_RecognizedServices ==
    (Constructed /\ CompleteConfig) => ~(ret.raised /\ ret.error = "ValueError(service)")

AgentReturned == pc = "END"
\* the step each graph node appends
StepNameOf(node) == IF node = "fallback" THEN "text2cypher" ELSE node
\* the nodes that have returned: all entered, but the one that raised
NodesReturned == IF pc = "RAISED" THEN SubSeq(trace, 1, Len(trace) - 1) ELSE trace

\* C22 as stated: steps is the sequence of the names of the graph nodes
\* that ran.
C22_StepsAreNodeNames == pc \in {"END", "RAISED"} => state.steps = NodesReturned

\* C22: every node that returns appends one entry to steps: its own graph
\* node name, except that the fallback node appends 'text2cypher'; a node
\* that raises appends nothing.
C22_StepsAreNodeNamesButFallback ==
    /\ pc # "idle" => state.steps = [i \in DOMAIN NodesReturned |-> StepNameOf(NodesReturned[i])]
    /\ pc # "idle" => Len(state.steps) = Len(NodesReturned)

\* a run through get_icd that fell back and was finalized
C22_Witness ==
    /\ AgentReturned
    /\ trace = <<"guardrails", "extract", "get_icd", "fallback", "finalize">>
    /\ state.steps = <<"guardrails", "extract", "get_icd", "text2cypher", "finalize">>

GuardrailsSaidEnd(s) ==
    /\ "final_answer" \in DOMAIN s /\ s.final_answer = OutOfDomainMessage
    /\ "results" \in DOMAIN s /\ s.results = OutOfDomainMessage

\* C23: when guardrails returns, whatever its decision, the next node is
\* extract; on 'end' results and final_answer are the out-of-domain message
\* and the run goes on; extract and the routing after it give the patient id
\* and the next node they give after decision 'continue'.
C23_ExtractFollowsGuardrails ==
    /\ (LastNode = "guardrails" /\ pc # "RAISED") =>
          /\ pc = "extract"
          /\ \/ DOMAIN state = {"question", "patient_id", "steps", "mode"}
             \/ /\ DOMAIN state = {"question", "patient_id", "steps", "mode", "results", "final_answer"}
                /\ GuardrailsSaidEnd(state)
    /\ Len(trace) >= 2 => trace[1] = "guardrails" /\ trace[2] = "extract"
    /\ LastNode = "extract" =>
          \E p \in PatientIdArgs :
              LET c == node_extract_inputs(node_guardrails(InitialState(state.question, p), "continue"))
              IN  /\ state.patient_id = c.patient_id
                  /\ state.steps = c.steps
                  /\ pc = route_after_extract(c)
                  /\ pc \in {"fallback", "patient_info", "get_icd"}

\* guardrails said 'end' and the run went on through extract to get_icd
C23_Witness ==
    /\ LastNode = "extract"
    /\ GuardrailsSaidEnd(state)
    /\ pc = "get_icd"

NoNodeTwice == \A i, j \in DOMAIN trace : i # j => trace[i] # trace[j]
AgentGraphShape ==
    /\ Len(trace) <= 7
    /\ NoNodeTwice
    /\ Len(trace) >= 1 => trace[1] = "guardrails"
    /\ Len(trace) >= 2 => trace[2] = "extract"
    /\ \A i \in DOMAIN trace :
         /\ trace[i] = "finalize" => i > 1 /\ trace[i - 1] \in {"coverage", "fallback"}
         /\ trace[i] \in {"patient_info", "finalize"} => i = Len(trace)
    /\ AgentReturned => LastNode \in {"patient_info", "finalize"}
    /\ (LastNode \in {"patient_info", "finalize"} /\ pc # "RAISED") => AgentReturned
WrittenByLastNode ==
    AgentReturned =>
        /\ "final_answer" \in DOMAIN state
        /\ LastNode = "patient_info" => state.final_answer.kind \in {"tool_answer", "no_patient_id"}
        /\ LastNode = "finalize" =>
              \/ state.final_answer = [kind |-> "final_chain"]
              \/ state.final_answer = [kind |-> "str", of |-> ResultsOf(state)]
              \/ state.final_answer = OutOfDomainMessage /\ ResultsOf(state) = OutOfDomainMessage

C28_DefensiveBranchUnreachable ==
    /\ pc = "patient_info" => TruthyStr(state.patient_id)
    /\ "patient_info" \in Range(trace) => TruthyStr(state.patient_id)
    /\ ~("final_answer" \in DOMAIN state /\ state.final_answer = [kind |-> "no_patient_id"])
    /\ ~("error" \in DOMAIN state /\ state.error = "patient_info node called without patient_id")

\* patient_info ran with a patient id recovered from the question
C28_Witness ==
    /\ LastNode = "patient_info"
    /\ AgentReturned
    /\ state.final_answer = [kind |-> "tool_answer"]
    /\ state.patient_id # <<"P","9">>

ProbeEvents == {"explain_generated", "explain_relcorrected", "explain_corrected", "explain_final"}
FinalProbeEvents == {"explain_corrected", "explain_final"}
Executions == {i \in DOMAIN plog : plog[i].ev = "execute"}
FailedProbes == {i \in DOMAIN plog : plog[i].ev \in ProbeEvents /\ ~plog[i].ok}
\* EXPLAIN answers the same for the same text
ProbesAgree ==
    \A i, j \in DOMAIN plog :
        (plog[i].ev \in ProbeEvents /\ plog[j].ev \in ProbeEvents /\ plog[i].q = plog[j].q)
            => plog[i].ok = plog[j].ok

\* C30: a query is executed only as the step right after a successful
\* EXPLAIN probe of that same text, which is the last probe performed; the
\* pipeline returns that text; when EXPLAIN answers the same for the same
\* text, no probe of the executed text has failed; and when the probe after
\* the correction or the final probe fails the pipeline raises with nothing
\* executed and nothing returned.
C30_ExecutesLastProbedQuery ==
    /\ \A i \in Executions :
         /\ i = Len(plog) /\ i > 1
         /\ plog[i - 1].ev \in FinalProbeEvents
         /\ plog[i - 1].ok
         /\ plog[i - 1].q = plog[i].q
    /\ ppc = "returned" =>
         /\ Executions = {Len(plog)}
         /\ pl.returned.body = plog[Len(plog)].q
         /\ ~pl.returned.fence
    /\ ppc = "execute" =>
         /\ plog[Len(plog)].ev \in FinalProbeEvents /\ plog[Len(plog)].ok
         /\ plog[Len(plog)].q = pl.corrected.body
    /\ ProbesAgree => \A i \in Executions : \A j \in FailedProbes : plog[j].q # plog[i].q
    /\ (plog # <<>> /\ plog[Len(plog)].ev \in FinalProbeEvents /\ ~plog[Len(plog)].ok) =>
         /\ ppc = "raised"
         /\ pl.exc = "CypherSyntaxError"
         /\ Executions = {}
         /\ pl.returned = NoText

\* the generated query failed its probe, the corrected one is another text,
\* passed its probe and was executed and returned
C30_Witness ==
    /\ ppc = "returned"
    /\ ProbesAgree
    /\ FailedProbes # {}
    /\ \E i \in DOMAIN plog : plog[i].ev = "explain_corrected" /\ plog[i].ok
    /\ pl.returned.body # pl.generated.body

\* the rows merge_rels has processed
RelsProcessed ==
    IF call.fn = "import_data" /\ call.phase = "merge_rels" THEN 1..(call.k - 1) ELSE {}

\* C26: after merge_rels has processed a group row, the group has a
\* GROUP_HAS_DISEASE edge to every existing IcdDisease whose id is in the
\* row's diseaseRange, whether or not an IcdChapter of the group's id exists.
C26_DiseaseLinksWithoutChapter ==
    \A k \in RelsProcessed :
        \A code \in Range(call.rows[k].diseaseRange) \cap db.diseases :
            <<call.rows[k].id, code>> \in db.group_has_disease

EmbedImporting == call.fn \in EmbedFunctions
\* a node the embedding must be computed for: no embedding yet at the start
\* of the run (the nodes of the batches so far had none) and a non-empty text
HadNoEmbedding(n) ==
    \/ db.nodes[n].embedding = None
    \/ \E b \in DOMAIN ret.batches : \E i \in DOMAIN ret.batches[b].ids : ret.batches[b].ids[i] = n
EligibleIds ==
    SelectSeq([i \in DOMAIN db.nodes |-> i],
              LAMBDA n : HadNoEmbedding(n) /\ TruthyStr(db.nodes[n].text))
RECURSIVE ConcatIds(_)
ConcatIds(batches) ==
    IF batches = <<>> THEN <<>> ELSE Head(batches).ids \o ConcatIds(Tail(batches))
IsPrefixOf(s, t) == Len(s) <= Len(t) /\ s = SubSeq(t, 1, Len(s))
BatchPosition(n) == {<<b, i>> \in (DOMAIN ret.batches) \X (1..(MaxEmbedNodes + 1)) :
                        i \in DOMAIN ret.batches[b].ids /\ ret.batches[b].ids[i] = n}

\* C25: the streamed nodes with a non-empty text are split in stream order
\* into batches of exactly batch_size and one last batch of 1 to batch_size
\* nodes; each batch is one call of the service and, only when as many
\* vectors as texts came back, one write that gives each node the vector at
\* its position; a count that differs ends the run before that batch is
\* written, earlier batches stay written, and no node is written twice.
C25_BatchedEmbedding ==
    EmbedImporting =>
        /\ IsPrefixOf(ConcatIds(ret.batches) \o (IF ret.raised THEN <<>> ELSE call.buffer_ids),
                      EligibleIds)
        /\ (ret.done /\ ~ret.raised) => ConcatIds(ret.batches) = EligibleIds
        /\ \A b \in DOMAIN ret.batches :
             /\ Len(ret.batches[b].ids) >= 1
             /\ Len(ret.batches[b].ids) <= call.batch_size
             /\ b < Len(ret.batches) => Len(ret.batches[b].ids) = call.batch_size
             /\ (Len(ret.batches[b].ids) < call.batch_size /\ ~ret.raised) => ret.done
             /\ Len(ret.batches[b].texts) = Len(ret.batches[b].ids)
             /\ \A i \in DOMAIN ret.batches[b].ids :
                  ret.batches[b].texts[i] = db.nodes[ret.batches[b].ids[i]].text
             /\ ret.batches[b].written <=> Len(ret.batches[b].vectors) = Len(ret.batches[b].texts)
             /\ ret.batches[b].written =>
                  \A i \in DOMAIN ret.batches[b].ids :
                      /\ db.nodes[ret.batches[b].ids[i]].embedding = ret.batches[b].vectors[i]
                      /\ ret.writes[ret.batches[b].ids[i]] = 1
             /\ ~ret.batches[b].written =>
                  /\ b = Len(ret.batches) /\ ret.raised /\ ret.done
                  /\ \A i \in DOMAIN ret.batches[b].ids :
                      /\ db.nodes[ret.batches[b].ids[i]].embedding = None
                      /\ ret.writes[ret.batches[b].ids[i]] = 0
        /\ \A n \in DOMAIN db.nodes :
             /\ ret.writes[n] <= 1
             /\ ret.writes[n] = 1 => Cardinality(BatchPosition(n)) = 1
             /\ Cardinality(BatchPosition(n)) <= 1

\* three nodes with text and batch_size 2: a batch of two was written, the
\* service answered the last batch of one with another count and the run
\* failed with that node unwritten
C25_Witness ==
    /\ EmbedImporting
    /\ call.batch_size = 2
    /\ Len(EligibleIds) = 3
    /\ ret.raised
    /\ Len(ret.batches) = 2
    /\ ret.batches[1].written /\ Len(ret.batches[1].ids) = 2
    /\ ~ret.batches[2].written /\ Len(ret.batches[2].ids) = 1
    /\ db.nodes[ret.batches[1].ids[2]].embedding = ret.batches[1].vectors[2]
    /\ ret.batches[1].vectors[1] # ret.batches[1].vectors[2]

AbatchCalled == call.fn = "disambiguate_candidates_batch_sync"

\* C24: the calls of one chunk run concurrently, never more than
\* max_concurrency at once; the synchronous caller gets its decisions only
\* when every call of the chunk has completed; and the i-th decision is the
\* answer for the i-th source, in whatever order the calls completed.
C24_BoundedAlignedBatch ==
    AbatchCalled =>
        /\ Cardinality(InFlight(call.status)) <= call.max_concurrency
        /\ ret.peak <= call.max_concurrency
        /\ ret.value # <<>> => ret.done /\ ~ret.raised
        /\ (ret.done /\ ~ret.raised) =>
             /\ \A i \in DOMAIN call.status : call.status[i] = "done"
             /\ Len(ret.order) = Len(call.sources)
             /\ Len(ret.value) = Len(call.sources)
             /\ \A i \in DOMAIN call.sources :
                  ret.value[i].best_id = <<"HP", call.sources[i]>>

\* three calls with two at a time: two ran at once, they completed in
\* another order than they were sent, and the decisions were returned
C24_Witness ==
    /\ AbatchCalled
    /\ ret.done /\ ~ret.raised
    /\ Len(call.sources) = 3
    /\ call.max_concurrency = 2
    /\ ret.peak = 2
    /\ ret.order = <<3, 1, 2>>
    /\ Len(ret.value) = 3
====
